---- MODULE Spec2Model ----
(***************************************************************************)
(* The process-control core of the deet debugger (proj-1/deet):            *)
(* Debugger::run's command loop, Inferior::new, Inferior::continue_exec,   *)
(* Inferior::write_byte, Inferior::print_backtrace, the parsing of         *)
(* breakpoint specifications, and the traced target they drive.            *)
(*                                                                         *)
(* Spec is the session with breakpoints given as addresses; SpecQuiet the  *)
(* same with a target that receives no signal, SpecFault with a child that *)
(* can be killed from outside (between two commands, and between the       *)
(* requests of one), SpecBP with breakpoints typed as strings.             *)
(* SpecWB calls write_byte directly on a range of memories, and SpecBT     *)
(* takes backtraces of children stopped at different call depths.          *)
(*                                                                         *)
(* SpecLB and SpecHC are the balancebeam proxy (proj-2/balancebeam), its   *)
(* tasks interleaved at their await points, with upstream servers that go  *)
(* down and come back: SpecLB the connection handlers with the             *)
(* counter-reset task, SpecHC the connection handlers with the active      *)
(* health check.                                                           *)
(*                                                                         *)
(* SpecPM is parallel_map (week6/parallel_map): the calling thread and its *)
(* worker threads, interleaved at their channel operations, for every      *)
(* input vector and thread count within the bounds.                        *)
(*                                                                         *)
(* The target is a small program of one-byte instructions laid out across  *)
(* a word boundary.  A 64-bit word of target memory is a tuple of 8 bytes, *)
(* least significant first (x86-64 is little-endian), so that the u64      *)
(* shifts and masks of write_byte are computed byte for byte.              *)
(***************************************************************************)
EXTENDS Integers, Sequences, FiniteSets, TLC

\* ---------------------------------------------------------------- bounds
\* How often the target's loop may jump back before it has to exit.
MaxLoops == 2
\* How many launched children may be left alive and untracked.
MaxOrphans == 1
\* How many direct calls of write_byte start a round trip.
MaxWrites == 2
\* How many calls deep below main a stopped target may be.
MaxDepth == 2
\* How many connection handlers the proxy runs at a time.
MaxHandlers == 2
\* How many requests are read on one handler's connections.
MaxReqs == 2
\* How many times the counter-reset task wakes up.
MaxWindows == 1
\* How many rounds the active health check is given time for.
MaxRounds == 2
\* How many times an upstream server changes its health.
MaxFlips == 1
\* The largest max_requests_per_minute the proxy is started with.
MaxLimit == 1
\* How long the vector given to parallel_map may be.
MaxLen == 3
\* How many worker threads parallel_map may be asked for.
MaxThreads == 2

\* ------------------------------------------------------ program constants
\* size_of::<usize>() on x86-64
WordSize == 8
\* the trap opcode (int3) written by Inferior::new and the Breakpoint arm
TRAP == 204
\* orig_byte of a breakpoint stored while no inferior exists
UNSET == 0

\* ----------------------------------------------------------- the target
\* The stack: two words for each frame, main's frame highest.  Base(k) is
\* the frame base of the function k calls below main: the word at Base(k)
\* holds the caller's frame base, the word above it the return address.
StackLow == 3 * WordSize
StackBases == {StackLow + WordSize * i : i \in 0..(2 * MaxDepth + 1)}
Base(k) == StackLow + 2 * WordSize * (MaxDepth - k)
\* Word-aligned base addresses of the mapped memory of the target: two
\* words of data and code, and the stack.
MappedBases == {0, WordSize} \cup StackBases
\* The program's code: four one-byte instructions 6, 7, 8, 9.  Execution
\* starts at Entry; the instruction at LastAddr jumps back to FirstAddr or
\* exits.  Address 6 lies one byte before the entry point.
Code == 6..9
FirstAddr == CHOOSE a \in Code : \A b \in Code : a <= b
LastAddr == CHOOSE a \in Code : \A b \in Code : b <= a
Entry == FirstAddr + 1
\* An address in no mapping of the target: ptrace reads of it fail.
BadAddr == 2 * WordSize
\* The addresses a user asks breakpoints at: the byte before the entry
\* point, the last instruction, and an unmapped address.
BpAddrs == {FirstAddr, LastAddr, BadAddr}
\* Exit codes the target may produce.
ExitCodes == {0, 3}

\* The unpatched memory image every launch of the target starts from; the
\* stack holds main's frame alone.
Image ==
  [b \in MappedBases |->
     IF b = 0 THEN <<17, 34, 51, 68, 85, 102, 72, 137>>
     ELSE IF b = WordSize THEN <<229, 195, 1, 2, 3, 4, 5, 6>>
     ELSE [i \in 1..WordSize |-> 0]]

\* The functions of the target by call depth: main calls f, f calls g, ...
FuncNames == <<"main", "f", "g", "h">>
\* The code of the function k calls below main starts here (k >= 1); it
\* lies above the stack, in words the debugger never reads.
FuncEntry(k) == 16 * WordSize + WordSize * k
\* Where the function k calls below main goes on after its call returns.
RetAddr(k) == IF k = 0 THEN FirstAddr + 2 ELSE FuncEntry(k) + 3

\* ---------------------------------------------------- u64 as 8 bytes
RECURSIVE BitAnd(_, _, _)
BitAnd(a, b, n) ==
  IF n = 0 THEN 0
  ELSE (IF a % 2 = 1 /\ b % 2 = 1 THEN 1 ELSE 0)
       + 2 * BitAnd(a \div 2, b \div 2, n - 1)

RECURSIVE BitOr(_, _, _)
BitOr(a, b, n) ==
  IF n = 0 THEN 0
  ELSE (IF a % 2 = 1 \/ b % 2 = 1 THEN 1 ELSE 0)
       + 2 * BitOr(a \div 2, b \div 2, n - 1)

\* (v as u64) << 8 * off, for a byte v
ShlByte(v, off) == [i \in 1..WordSize |-> IF i = off + 1 THEN v ELSE 0]
\* !w
WordNot(w) == [i \in 1..WordSize |-> 255 - w[i]]
\* w1 & w2
WordAnd(w1, w2) == [i \in 1..WordSize |-> BitAnd(w1[i], w2[i], 8)]
\* w1 | w2
WordOr(w1, w2) == [i \in 1..WordSize |-> BitOr(w1[i], w2[i], 8)]
\* (w >> 8 * off) & 0xff
ShrLowByte(w, off) == BitAnd(w[off + 1], 255, 8)

\* A small address as a u64 word, and the address a word holds; words
\* beyond the modelled 2^24 addresses all count as FarAddr.
FarAddr == 16777216
ToWord(n) ==
  [i \in 1..WordSize |->
     IF i = 1 THEN n % 256
     ELSE IF i = 2 THEN (n \div 256) % 256
     ELSE IF i = 3 THEN (n \div 65536) % 256
     ELSE 0]
WordVal(w) ==
  IF \A i \in 4..WordSize : w[i] = 0
  THEN w[1] + 256 * w[2] + 65536 * w[3]
  ELSE FarAddr

\* addr & -(size_of::<usize>()): the low three bits cleared
align_addr_to_word(addr) == addr - (addr % WordSize)

\* The byte of memory image m at addr (addr in a mapped word).
ByteAt(m, addr) == m[align_addr_to_word(addr)][addr - align_addr_to_word(addr) + 1]

\* ptrace::read / ptrace::write succeed on a tracee in ptrace-stop, at a
\* mapped word.
PtraceMemOk(live, base) == live /\ base \in MappedBases

\* write_byte with the mask left out: the new byte is or-ed onto the old.
write_byte_NoMask(m, live, addr, val) ==
  LET aligned_addr == align_addr_to_word(addr)
      byte_offset == addr - aligned_addr
  IN IF ~PtraceMemOk(live, aligned_addr)
     THEN [ok |-> FALSE, orig |-> 0, mem |-> m]
     ELSE LET word == m[aligned_addr]
              orig_byte == ShrLowByte(word, byte_offset)
              updated_word == WordOr(word, ShlByte(val, byte_offset))
          IN [ok |-> TRUE, orig |-> orig_byte,
              mem |-> [m EXCEPT ![aligned_addr] = updated_word]]

\* write_byte with the shift of the read left out: the byte returned is
\* the lowest byte of the word.
write_byte_NoShift(m, live, addr, val) ==
  LET aligned_addr == align_addr_to_word(addr)
      byte_offset == addr - aligned_addr
  IN IF ~PtraceMemOk(live, aligned_addr)
     THEN [ok |-> FALSE, orig |-> 0, mem |-> m]
     ELSE LET word == m[aligned_addr]
              orig_byte == ShrLowByte(word, 0)
              masked_word == WordAnd(word, WordNot(ShlByte(255, byte_offset)))
              updated_word == WordOr(masked_word, ShlByte(val, byte_offset))
          IN [ok |-> TRUE, orig |-> orig_byte,
              mem |-> [m EXCEPT ![aligned_addr] = updated_word]]

\* ptrace::read(pid, addr): the word of eight bytes starting at addr, which
\* need not be aligned.
ptrace_read(m, live, addr) ==
  IF live /\ \A i \in 0..(WordSize - 1) : align_addr_to_word(addr + i) \in MappedBases
  THEN [ok |-> TRUE, val |-> WordVal([i \in 1..WordSize |-> ByteAt(m, addr + i - 1)])]
  ELSE [ok |-> FALSE, val |-> 0]

\* Inferior::write_byte: [ok, orig, mem].  ok = FALSE is Err(_): the read
\* failed and nothing was written.
write_byte(m, live, addr, val) ==
  LET aligned_addr == align_addr_to_word(addr)
      byte_offset == addr - aligned_addr
  IN IF ~PtraceMemOk(live, aligned_addr)
     THEN [ok |-> FALSE, orig |-> 0, mem |-> m]
     ELSE LET word == m[aligned_addr]
              orig_byte == ShrLowByte(word, byte_offset)
              masked_word == WordAnd(word, WordNot(ShlByte(255, byte_offset)))
              updated_word == WordOr(masked_word, ShlByte(val, byte_offset))
          IN [ok |-> TRUE, orig |-> orig_byte,
              mem |-> [m EXCEPT ![aligned_addr] = updated_word]]

\* ------------------------------------------------------------- the state
VARIABLES
  pc,          \* where the debugger is: at the prompt, inside continue_exec, ...
  cmd,         \* the command being served (the last one, at the prompt)
  inferior,    \* Debugger::inferior: "None" or "Some"
  killed,      \* the session killed its process and has launched none since
  breakpoints, \* Debugger::breakpoints: addr -> Breakpoint
  pstate,      \* the tracked child: none, stopped, running, stepping, dead
  wstatus,     \* the child's wait-status not yet collected by a wait
  mem,         \* the child's memory, by word
  rip,         \* the child's instruction pointer
  rbp,         \* the child's frame-base pointer
  loops,       \* how often the child's loop has jumped back
  hit,         \* the address of the trap whose execution stopped the child, or NoHit
  orphans,     \* launched children that are alive and not tracked
  crip,        \* continue_exec's local `rip`
  log,         \* what continue_exec has done to the target so far
  status,      \* what continue_exec returned
  msg,         \* what the command printed last
  call,        \* the last direct call of write_byte, its arguments and result
  frames       \* the frames the backtrace command printed

\* The state of the balancebeam proxy.
VARIABLES
  max_requests_per_minute, \* ProxyState::max_requests_per_minute
  active_upstream,         \* ProxyState::active_upstream, the Vec in the RwLock
  ip_count,                \* ProxyState::ip_count, the HashMap in the Mutex
  conn,                    \* the handle_connection tasks, by handler
  hc,                      \* the active_health_check task
  servers,                 \* the health of each upstream server
  flips,                   \* how often a server has changed its health
  window,                  \* how often count_reset has cleared the counters
  forwarded                \* how many requests were sent upstream, by client IP

debugger == <<pc, cmd, inferior, killed, breakpoints, pstate, wstatus, mem, rip, rbp,
              loops, hit, orphans, crip, log, status, msg, call, frames>>

proxy == <<max_requests_per_minute, active_upstream, ip_count, conn, hc, servers,
           flips, window, forwarded>>

\* The state of a call of parallel_map.
VARIABLES
  given,       \* the vector parallel_map was called with
  num_threads, \* parallel_map's num_threads
  input_vec,   \* input_vec, what is left of it
  output_vec,  \* output_vec
  work,        \* the channel (tx, rx): pairs sent and not yet received
  tx_live,     \* how many senders of that channel have not been dropped
  results,     \* the channel (tx1, rx1): pairs sent and not yet received
  tx1_live,    \* how many senders of that channel have not been dropped
  caller,      \* the calling thread: its position, loop counters, and what it received
  threads,     \* the worker threads: position and locals of each
  applied      \* how many times f was called on the element of each index

pmap == <<given, num_threads, input_vec, output_vec, work, tx_live, results,
          tx1_live, caller, threads, applied>>

vars == <<debugger, proxy, pmap>>

target == <<pstate, wstatus, mem, rip, rbp, loops, hit>>

NoHit == 0 - 1

\* nix WaitStatus / inferior Status, as records of one shape
NoStatus == [kind |-> "None", sig |-> "-", val |-> 0]
Stopped(sig, at) == [kind |-> "Stopped", sig |-> sig, val |-> at]
Exited(code) == [kind |-> "Exited", sig |-> "-", val |-> code]
Signaled(sig) == [kind |-> "Signaled", sig |-> sig, val |-> 0]
StatusErr == [kind |-> "Err", sig |-> "-", val |-> 0]

NoCmd == [name |-> "none", arg |-> 0]
Cmd(name, arg) == [name |-> name, arg |-> arg]

\* One entry of continue_exec's log: the request, its address and value, whether
\* it succeeded, and for a wait the status collected.
Op(op, addr, val, ok) ==
  [op |-> op, addr |-> addr, val |-> val, ok |-> ok, res |-> NoStatus]
WaitOp(st) ==
  [op |-> "wait", addr |-> 0, val |-> 0, ok |-> st.kind # "Err", res |-> st]

Breakpoint(addr, orig_byte) == [addr |-> addr, orig_byte |-> orig_byte]

\* No direct call of write_byte has been made.
NoCall ==
  [phase |-> "idle", a |-> 0, v |-> 0, ok |-> FALSE, b |-> 0,
   m0 |-> Image, v0 |-> 0, n |-> 0]

\* HashMap::insert
Insert(bps, a, bp) == [x \in (DOMAIN bps) \cup {a} |-> IF x = a THEN bp ELSE bps[x]]

\* --upstream, twice
upstream_addresses == <<"u1", "u2">>
Upstreams == {upstream_addresses[i] : i \in 1..Len(upstream_addresses)}
\* The addresses clients connect from.
ClientIps == {"a", "b"}
Handlers == 1..MaxHandlers
Limits == 0..MaxLimit

\* http::StatusCode, as_u16
OK == 200
BAD_REQUEST == 400
PAYLOAD_TOO_LARGE == 413
TOO_MANY_REQUESTS == 429
BAD_GATEWAY == 502
\* What a server that is up but not working answers.
INTERNAL_SERVER_ERROR == 500
NoResponse == 0

\* A handler no connection has been accepted for yet.
NoConn ==
  [pc |-> "idle", ip |-> "-", idx |-> 0, up |-> "-", resp |-> NoResponse,
   reqs |-> 0]

\* The health check's record of a round: what each upstream answered.
NoProbes == [u \in Upstreams |-> "none"]

\* The proxy as main() leaves it, started with --max-requests-per-minute n:
\* the listener bound, the two background tasks spawned, no connection yet.
ProxyStart(n) ==
  /\ max_requests_per_minute = n
  /\ active_upstream = upstream_addresses
  /\ ip_count = <<>>
  /\ conn = [h \in Handlers |-> NoConn]
  /\ hc = [pc |-> "sleep", at |-> "connect", i |-> 0, probes |-> NoProbes, rounds |-> 0]
  /\ servers = [u \in Upstreams |-> "up"]
  /\ flips = 0
  /\ window = 0
  /\ forwarded = [ip \in ClientIps |-> 0]

\* The closure main passes: num * num
f(num) == num * num
\* i32's Default::default()
Default == 0
\* The numbers in the vectors given.
Elems == {2, 3}
Vectors == UNION {[1..n -> Elems] : n \in 0..MaxLen}
Workers == 1..MaxThreads

\* A worker thread not spawned yet.
NoThread == [pc |-> "unspawned", index |-> 0, number |-> 0, result |-> 0]

\* parallel_map(v, n, f) entered: output_vec allocated and resized with
\* defaults, both channels created and empty, the send loop not begun.
MapStart(v, n) ==
  /\ given = v
  /\ num_threads = n
  /\ input_vec = v
  /\ output_vec = [i \in 1..Len(v) |-> Default]
  /\ work = <<>>
  /\ tx_live = 1
  /\ results = <<>>
  /\ tx1_live = 1
  /\ caller = [pc |-> "send", index |-> Len(v) - 1, spawned |-> 0, joined |-> 0,
               order |-> <<>>]
  /\ threads = [w \in Workers |-> NoThread]
  /\ applied = [i \in 0..(Len(v) - 1) |-> 0]

\* The debugger started, with no command given yet.
DebuggerStart ==
  /\ pc = "prompt"
  /\ cmd = NoCmd
  /\ inferior = "None"
  /\ killed = FALSE
  /\ breakpoints = <<>>
  /\ pstate = "none"
  /\ wstatus = NoStatus
  /\ mem = Image
  /\ rip = 0
  /\ rbp = 0
  /\ loops = 0
  /\ hit = NoHit
  /\ orphans = 0
  /\ crip = 0
  /\ log = <<>>
  /\ status = NoStatus
  /\ msg = ""
  /\ call = NoCall
  /\ frames = <<>>

Init ==
  /\ DebuggerStart
  /\ ProxyStart(0)
  /\ MapStart(<<>>, 0)

\* ------------------------------------------------ the Process Controller
\* The child exists and has not terminated.
LiveProc == pstate \in {"stopped", "running", "stepping"}

\* A ptrace request succeeds on a tracee that is in ptrace-stop.
PtraceOk == pstate = "stopped"

\* Child::try_wait is waitpid(pid, WNOHANG): Ok(None) when the child has
\* not terminated and has no wait-status pending; a pending status is
\* collected by the call.
try_wait ==
  IF wstatus = NoStatus
  THEN [none |-> LiveProc, wstatus |-> wstatus]
  ELSE [none |-> FALSE, wstatus |-> NoStatus]

\* Inferior::alive
alive == try_wait.none

\* The wait-status left pending once a command has asked alive() of the
\* process in the slot.
Probed == IF inferior = "Some" THEN try_wait.wstatus ELSE wstatus

\* Inferior::kill on a live child: SIGKILL; the status is left uncollected.
\* Debugger::kill_inferior then empties the process slot.
kill_inferior ==
  [inferior |-> "None", killed |-> TRUE,
   pstate |-> "dead", wstatus |-> Signaled("SIGKILL")]

\* `if let Some(inferior) = ... { if inferior.alive() { self.kill_inferior() } }`
\* of the Run and Quit arms.
Teardown ==
  IF inferior = "Some" /\ alive
  THEN kill_inferior
  ELSE [inferior |-> inferior, killed |-> killed,
        pstate |-> pstate, wstatus |-> Probed]

\* PatchAll with the loop over the table left out.
PatchAll_None(m, bps, todo, reach) == [mem |-> m, bps |-> bps]

\* The loop of Inferior::new over the table: write the trap at every entry
\* and keep the byte read; an entry whose write fails is left as it was
\* ("Inferior::new can't write_byte") and the loop goes on.  The loop runs
\* request by request after waitpid has returned, so the child can be
\* killed from outside while it runs: reach holds the entries whose write
\* the child lived to see, and every other write fails with ESRCH.  The
\* table is a HashMap, whose order of iteration is arbitrary, so reach can
\* be any subset of the entries.
RECURSIVE PatchAll(_, _, _, _)
PatchAll(m, bps, todo, reach) ==
  IF todo = {} THEN [mem |-> m, bps |-> bps]
  ELSE LET addr == CHOOSE x \in todo : TRUE
           r == write_byte(m, addr \in reach, addr, TRAP)
       IN PatchAll(r.mem,
                   IF r.ok THEN Insert(bps, addr, Breakpoint(addr, r.orig)) ELSE bps,
                   todo \ {addr}, reach)

\* What spawn and the first waitpid of Inferior::new can yield.
LaunchOutcomes ==
  {"spawn_fail", "trap", "exited", "signaled", "stopped_other", "wait_err"}

\* Inferior::new: Some(inferior) only for a SIGTRAP stop, whatever the
\* writes of the loop returned.  childAlive: the child this launch created
\* is alive when new returns; it is not when it was killed inside the loop
\* (reach is not the whole table).
Inferior_new(outcome, bps, reach) ==
  IF outcome = "trap"
  THEN LET p == PatchAll(Image, bps, DOMAIN bps, reach)
       IN [some |-> TRUE, bps |-> p.bps, mem |-> p.mem,
           childAlive |-> reach = DOMAIN bps]
  ELSE [some |-> FALSE, bps |-> bps, mem |-> Image,
        childAlive |-> outcome \in {"stopped_other", "wait_err"}]

\* wait with the exit code of the child dropped.
wait_CodeLost(regs_ok) ==
  IF wstatus = NoStatus THEN StatusErr
  ELSE IF wstatus.kind = "Stopped"
  THEN IF regs_ok THEN Stopped(wstatus.sig, rip) ELSE StatusErr
  ELSE IF wstatus.kind = "Exited" THEN Exited(0)
  ELSE wstatus

\* Inferior::wait: waitpid, then for a stop `ptrace::getregs(self.pid())?`.
\* With no status to collect and no live child waitpid fails (ECHILD).
\* regs_ok: the child is still there when getregs is issued; when it was
\* killed after waitpid returned the stop, getregs fails (ESRCH) and wait
\* returns the Err.
WaitReady == wstatus # NoStatus \/ ~LiveProc
wait(regs_ok) ==
  IF wstatus = NoStatus THEN StatusErr
  ELSE IF wstatus.kind = "Stopped"
  THEN IF regs_ok THEN Stopped(wstatus.sig, rip) ELSE StatusErr
  ELSE wstatus

\* The child can be killed between waitpid's return and getregs only when
\* what waitpid returned is a stop.
KilledInWait(k) == k => (wstatus # NoStatus /\ wstatus.kind = "Stopped")

\* What a wait leaves of the child: the status is collected; a child killed
\* after waitpid returned is dead, its SIGKILL status yet to be collected.
AfterWait(k) ==
  IF k THEN pstate' = "dead" /\ wstatus' = Signaled("SIGKILL") /\ hit' = NoHit
  ELSE wstatus' = NoStatus /\ UNCHANGED <<pstate, hit>>

\* DwarfData::get_function_from_addr: the function whose code holds addr
\* (main's includes the byte after its last instruction), NoFunc for None.
NoFunc == "?"
FuncAt(addr) ==
  IF addr \in FirstAddr..(LastAddr + 1) THEN FuncNames[1]
  ELSE IF \E k \in 1..MaxDepth : addr \in FuncEntry(k)..(FuncEntry(k) + WordSize - 1)
  THEN FuncNames[(CHOOSE k \in 1..MaxDepth :
                    addr \in FuncEntry(k)..(FuncEntry(k) + WordSize - 1)) + 1]
  ELSE NoFunc

\* DwarfData::get_line_from_addr finds a line for the addresses of the
\* program's code.
HasLine(addr) == FuncAt(addr) # NoFunc

\* One line of the backtrace: the address resolved, its function, and the
\* frame base the walk held when it printed the line.
Frame(ip, bp) == [ip |-> ip, func |-> FuncAt(ip), bp |-> bp]

\* How many lines a backtrace of the modelled targets can print.
MaxFrames == MaxDepth + 2

\* Walk with the return address read at the frame base itself.
RECURSIVE Walk_NoOffset(_, _, _, _, _)
Walk_NoOffset(m, instrction_ptr, base_ptr, out, fuel) ==
  IF fuel = 0 THEN [end |-> "endless", frames |-> out]
  ELSE IF ~HasLine(instrction_ptr) THEN [end |-> "unresolved", frames |-> out]
  ELSE LET printed == Append(out, Frame(instrction_ptr, base_ptr))
       IN IF FuncAt(instrction_ptr) = "main" THEN [end |-> "main", frames |-> printed]
          ELSE LET r1 == ptrace_read(m, TRUE, base_ptr)
                   r2 == ptrace_read(m, TRUE, base_ptr)
               IN IF ~r1.ok \/ ~r2.ok THEN [end |-> "read_err", frames |-> printed]
                  ELSE Walk_NoOffset(m, r1.val, r2.val, printed, fuel - 1)

\* The loop of Inferior::print_backtrace on a stopped child: resolve the
\* instruction pointer (both lookups are unwrapped), print, stop at main,
\* else read the return address at base_ptr + 8 and the caller's frame base
\* at base_ptr (both reads propagate their error).  end: how the loop ended.
RECURSIVE Walk(_, _, _, _, _)
Walk(m, instrction_ptr, base_ptr, out, fuel) ==
  IF fuel = 0 THEN [end |-> "endless", frames |-> out]
  ELSE IF ~HasLine(instrction_ptr) THEN [end |-> "unresolved", frames |-> out]
  ELSE LET printed == Append(out, Frame(instrction_ptr, base_ptr))
       IN IF FuncAt(instrction_ptr) = "main" THEN [end |-> "main", frames |-> printed]
          ELSE LET r1 == ptrace_read(m, TRUE, base_ptr + 8)
                   r2 == ptrace_read(m, TRUE, base_ptr)
               IN IF ~r1.ok \/ ~r2.ok THEN [end |-> "read_err", frames |-> printed]
                  ELSE Walk(m, r1.val, r2.val, printed, fuel - 1)

\* Debugger::debugger_next's match on what continue_exec returned.
Report(st) ==
  CASE st.kind = "Stopped" -> IF HasLine(st.val) THEN "Child stopped" ELSE "panic"
    [] st.kind = "Signaled" -> "Child exited with signal"
    [] st.kind = "Exited" -> "Child exited"
    [] OTHER -> "Error starting subprocess : e"

\* ------------------------------------------------- Debugger::run's arms
\* DebuggerCommand::Run: tear down a live inferior, launch, and on success
\* go on to debugger_next (continue_exec).  A child that is alive and no
\* longer (or never) held in the process slot is counted in orphans.
CmdRun(outcome, reach) ==
  /\ pc = "prompt"
  /\ LET t == Teardown
         n == Inferior_new(outcome, breakpoints, reach)
         oldLive == t.pstate \in {"stopped", "running", "stepping"}
         left == orphans + (IF n.some /\ oldLive THEN 1 ELSE 0)
                         + (IF ~n.some /\ n.childAlive THEN 1 ELSE 0)
     IN /\ left <= MaxOrphans
        /\ cmd' = Cmd("run", 0)
        /\ orphans' = left
        /\ log' = <<>>
        /\ status' = NoStatus
        /\ crip' = 0
        /\ IF n.some
           THEN /\ inferior' = "Some"
                /\ killed' = FALSE
                /\ breakpoints' = n.bps
                /\ mem' = n.mem
                /\ pstate' = IF n.childAlive THEN "stopped" ELSE "dead"
                /\ wstatus' = IF n.childAlive THEN NoStatus ELSE Signaled("SIGKILL")
                /\ rip' = Entry
                /\ rbp' = Base(0)
                /\ loops' = 0
                /\ hit' = NoHit
                /\ msg' = ""
                /\ pc' = "ce_getrip"
           ELSE /\ inferior' = t.inferior
                /\ killed' = t.killed
                /\ pstate' = t.pstate
                /\ wstatus' = t.wstatus
                /\ UNCHANGED <<breakpoints, mem, rip, rbp, loops, hit>>
                /\ msg' = "Error starting subprocess"
                /\ pc' = "prompt"
  /\ UNCHANGED call
  /\ frames' = <<>>

\* DebuggerCommand::Quit
CmdQuit ==
  /\ pc = "prompt"
  /\ LET t == Teardown
     IN /\ inferior' = t.inferior
        /\ killed' = t.killed
        /\ pstate' = t.pstate
        /\ wstatus' = t.wstatus
  /\ cmd' = Cmd("quit", 0)
  /\ pc' = "quit"
  /\ log' = <<>>
  /\ status' = NoStatus
  /\ msg' = ""
  /\ UNCHANGED <<breakpoints, mem, rip, loops, hit, orphans, crip>>
  /\ UNCHANGED call
  /\ frames' = <<>>
  /\ UNCHANGED rbp

\* DebuggerCommand::Continue: `self.inferior.as_mut().unwrap()` panics on
\* an empty process slot.
CmdContinue ==
  /\ pc = "prompt"
  /\ cmd' = Cmd("continue", 0)
  /\ log' = <<>>
  /\ status' = NoStatus
  /\ IF inferior = "None"
     THEN /\ pc' = "panicked"
          /\ msg' = "panic"
     ELSE IF alive
     THEN /\ pc' = "ce_getrip"
          /\ msg' = ""
     ELSE /\ pc' = "prompt"
          /\ msg' = "Inferior process is not running"
  /\ wstatus' = Probed
  /\ UNCHANGED <<inferior, killed, breakpoints, pstate, mem, rip, rbp, loops, hit,
                 orphans, crip>>
  /\ UNCHANGED call
  /\ frames' = <<>>

\* CmdBacktrace with the walk done on the child's own frame-base register.
CmdBacktrace_MovesRbp ==
  /\ pc = "prompt"
  /\ cmd' = Cmd("backtrace", 0)
  /\ log' = <<>>
  /\ status' = NoStatus
  /\ IF inferior = "None" \/ ~PtraceOk
     THEN /\ pc' = "panicked"
          /\ msg' = "panic"
          /\ frames' = <<>>
          /\ rbp' = rbp
     ELSE LET w == Walk(mem, rip, rbp, <<>>, MaxFrames)
          IN /\ frames' = w.frames
             /\ rbp' = IF w.frames = <<>> THEN rbp ELSE w.frames[Len(w.frames)].bp
             /\ CASE w.end = "main" -> pc' = "prompt" /\ msg' = "backtrace"
                  [] w.end = "endless" -> pc' = "walking" /\ msg' = ""
                  [] OTHER -> pc' = "panicked" /\ msg' = "panic"
  /\ UNCHANGED <<inferior, killed, breakpoints, pstate, wstatus, mem, rip, loops, hit,
                 orphans, crip, call>>

\* DebuggerCommand::Backtrace: unwrap of the process slot, then
\* print_backtrace, whose first getregs is unwrapped, and `.expect("No
\* trace")` on what it returns.  A walk that never meets main does not
\* return.  The walk only reads the target.
CmdBacktrace ==
  /\ pc = "prompt"
  /\ cmd' = Cmd("backtrace", 0)
  /\ log' = <<>>
  /\ status' = NoStatus
  /\ IF inferior = "None" \/ ~PtraceOk
     THEN /\ pc' = "panicked"
          /\ msg' = "panic"
          /\ frames' = <<>>
     ELSE LET w == Walk(mem, rip, rbp, <<>>, MaxFrames)
          IN /\ frames' = w.frames
             /\ CASE w.end = "main" -> pc' = "prompt" /\ msg' = "backtrace"
                  [] w.end = "endless" -> pc' = "walking" /\ msg' = ""
                  [] OTHER -> pc' = "panicked" /\ msg' = "panic"
  /\ UNCHANGED <<inferior, killed, breakpoints, target, orphans, crip>>
  /\ UNCHANGED call

\* CmdBreakpoint with the byte write_byte returned not kept.
CmdBreakpoint_NoSave(location, k) ==
  /\ pc = "prompt"
  /\ k => (inferior = "Some" /\ alive /\ PtraceOk)
  /\ cmd' = Cmd("break", location)
  /\ log' = <<>>
  /\ status' = NoStatus
  /\ pc' = "prompt"
  /\ IF inferior = "Some"
     THEN IF alive
          THEN LET r == write_byte(mem, PtraceOk /\ ~k, location, TRAP)
               IN IF r.ok
                  THEN /\ breakpoints' =
                            Insert(breakpoints, location, Breakpoint(location, UNSET))
                       /\ mem' = r.mem
                       /\ msg' = "Set breakpoint"
                  ELSE /\ msg' = "Error setting breakpoint"
                       /\ UNCHANGED <<breakpoints, mem>>
          ELSE /\ msg' = "Set breakpoint"
               /\ UNCHANGED <<breakpoints, mem>>
     ELSE /\ breakpoints' = Insert(breakpoints, location, Breakpoint(location, UNSET))
          /\ msg' = "Set breakpoint"
          /\ UNCHANGED mem
  /\ IF k
     THEN pstate' = "dead" /\ wstatus' = Signaled("SIGKILL") /\ hit' = NoHit
     ELSE wstatus' = Probed /\ UNCHANGED <<pstate, hit>>
  /\ UNCHANGED <<inferior, killed, rip, loops, orphans, crip>>
  /\ UNCHANGED call
  /\ frames' = <<>>
  /\ UNCHANGED rbp

\* DebuggerCommand::Breakpoint with a literal address (Point::Addr): "Set
\* breakpoint" is printed first; with a process in the slot that alive()
\* finds alive, write_byte puts the trap in and the entry keeps the byte it
\* returned, or "Error setting breakpoint" is printed and nothing is kept.
\* alive() and write_byte are two requests: k says that the child is
\* killed from outside between them, and then write_byte's read fails
\* (ESRCH) for any address.
CmdBreakpoint(location, k) ==
  /\ pc = "prompt"
  /\ k => (inferior = "Some" /\ alive /\ PtraceOk)
  /\ cmd' = Cmd("break", location)
  /\ log' = <<>>
  /\ status' = NoStatus
  /\ pc' = "prompt"
  /\ IF inferior = "Some"
     THEN IF alive
          THEN LET r == write_byte(mem, PtraceOk /\ ~k, location, TRAP)
               IN IF r.ok
                  THEN /\ breakpoints' =
                            Insert(breakpoints, location, Breakpoint(location, r.orig))
                       /\ mem' = r.mem
                       /\ msg' = "Set breakpoint"
                  ELSE /\ msg' = "Error setting breakpoint"
                       /\ UNCHANGED <<breakpoints, mem>>
          ELSE /\ msg' = "Set breakpoint"
               /\ UNCHANGED <<breakpoints, mem>>
     ELSE /\ breakpoints' = Insert(breakpoints, location, Breakpoint(location, UNSET))
          /\ msg' = "Set breakpoint"
          /\ UNCHANGED mem
  /\ IF k
     THEN pstate' = "dead" /\ wstatus' = Signaled("SIGKILL") /\ hit' = NoHit
     ELSE wstatus' = Probed /\ UNCHANGED <<pstate, hit>>
  /\ UNCHANGED <<inferior, killed, rip, loops, orphans, crip>>
  /\ UNCHANGED call
  /\ frames' = <<>>
  /\ UNCHANGED rbp

\* ------------------------------------------- Inferior::continue_exec
\* Inferior::check_at_breakpoint
check_at_breakpoint(addr, bps) == addr \in DOMAIN bps

\* ProtocolNext with the rewind of the instruction pointer left out.
ProtocolNext_NoRewind(at) ==
  CASE at = "ce_unpatch" -> "ce_step"
    [] at = "ce_setrip" -> "ce_step"
    [] at = "ce_step" -> "ce_stepwait"
    [] at = "ce_repatch" -> "ce_cont"
    [] at = "ce_cont" -> "ce_wait"

\* The statement order of the step-over in continue_exec: what follows each
\* request once it has succeeded.
ProtocolNext(at) ==
  CASE at = "ce_unpatch" -> "ce_setrip"
    [] at = "ce_setrip" -> "ce_step"
    [] at = "ce_step" -> "ce_stepwait"
    [] at = "ce_repatch" -> "ce_cont"
    [] at = "ce_cont" -> "ce_wait"

\* StepArm with the status of the single-step not looked at.
StepArm_IgnoreStatus(r) ==
  IF r.kind = "Err" THEN "panicked" ELSE "ce_repatch"

\* The arms of `match self.wait(None).unwrap()` after the single-step.
StepArm(r) ==
  CASE r.kind = "Err" -> "panicked"
    [] r.kind = "Stopped" -> "ce_repatch"
    [] OTHER -> "return"

\* Return with the status dropped on the way to debugger_next.
Return_Dropped(st) ==
  /\ status' = NoStatus
  /\ msg' = Report(st)
  /\ pc' = IF Report(st) = "panic" THEN "panicked" ELSE "prompt"
  /\ crip' = 0

\* continue_exec returns st to debugger_next, which prints it.
Return(st) ==
  /\ status' = st
  /\ msg' = Report(st)
  /\ pc' = IF Report(st) = "panic" THEN "panicked" ELSE "prompt"
  /\ crip' = 0

\* `if let Some(rip) = self.get_rip()`, whose getregs is unwrapped, and the
\* test of rip - 1 against the table.
CeGetRip ==
  /\ pc = "ce_getrip"
  /\ IF PtraceOk
     THEN /\ crip' = rip
          /\ log' = Append(log, Op("get_rip", rip, 0, TRUE))
          /\ IF check_at_breakpoint(rip - 1, breakpoints)
             THEN /\ pc' = "ce_unpatch"
                  /\ msg' = "Stopped at breakpoint"
             ELSE /\ pc' = "ce_cont"
                  /\ msg' = msg
     ELSE /\ pc' = "panicked"
          /\ msg' = "panic"
          /\ log' = Append(log, Op("get_rip", 0, 0, FALSE))
          /\ UNCHANGED crip
  /\ UNCHANGED <<cmd, inferior, killed, breakpoints, target, orphans, status>>
  /\ UNCHANGED call
  /\ UNCHANGED frames

\* CeUnpatch with the entry taken out of the table once its byte is back.
CeUnpatch_Forgets ==
  /\ pc = "ce_unpatch"
  /\ LET orig_byte == breakpoints[crip - 1].orig_byte
         r == write_byte(mem, PtraceOk, crip - 1, orig_byte)
     IN /\ mem' = r.mem
        /\ log' = Append(log, Op("write_byte", crip - 1, orig_byte, r.ok))
  /\ breakpoints' = [a \in DOMAIN breakpoints \ {crip - 1} |-> breakpoints[a]]
  /\ pc' = ProtocolNext("ce_unpatch")
  /\ UNCHANGED <<cmd, inferior, killed, pstate, wstatus, rip, loops,
                 hit, orphans, crip, status, msg, call, rbp, frames>>

\* `self.write_byte(rip - 1, orig_byte).ok()`: an Err is dropped.
CeUnpatch ==
  /\ pc = "ce_unpatch"
  /\ LET orig_byte == breakpoints[crip - 1].orig_byte
         r == write_byte(mem, PtraceOk, crip - 1, orig_byte)
     IN /\ mem' = r.mem
        /\ log' = Append(log, Op("write_byte", crip - 1, orig_byte, r.ok))
  /\ pc' = ProtocolNext("ce_unpatch")
  /\ UNCHANGED <<cmd, inferior, killed, breakpoints, pstate, wstatus, rip, loops,
                 hit, orphans, crip, status, msg>>
  /\ UNCHANGED call
  /\ UNCHANGED <<rbp, frames>>

\* `self.set_rip(rip - 1)`: getregs and setregs, both unwrapped.
CeSetRip ==
  /\ pc = "ce_setrip"
  /\ IF PtraceOk
     THEN /\ rip' = crip - 1
          /\ log' = Append(log, Op("set_rip", crip - 1, 0, TRUE))
          /\ pc' = ProtocolNext("ce_setrip")
          /\ msg' = msg
     ELSE /\ pc' = "panicked"
          /\ msg' = "panic"
          /\ log' = Append(log, Op("set_rip", crip - 1, 0, FALSE))
          /\ UNCHANGED rip
  /\ UNCHANGED <<cmd, inferior, killed, breakpoints, pstate, wstatus, mem, loops,
                 hit, orphans, crip, status>>
  /\ UNCHANGED call
  /\ UNCHANGED <<rbp, frames>>

\* `ptrace::step(self.pid(), None)?`
CeStep ==
  /\ pc = "ce_step"
  /\ IF PtraceOk
     THEN /\ pstate' = "stepping"
          /\ log' = Append(log, Op("step", 0, 0, TRUE))
          /\ pc' = ProtocolNext("ce_step")
          /\ UNCHANGED <<status, msg, crip>>
     ELSE /\ log' = Append(log, Op("step", 0, 0, FALSE))
          /\ Return(StatusErr)
          /\ UNCHANGED pstate
  /\ UNCHANGED <<cmd, inferior, killed, breakpoints, wstatus, mem, rip, loops, hit, orphans>>
  /\ UNCHANGED call
  /\ UNCHANGED <<rbp, frames>>

\* `match self.wait(None).unwrap()`: a stop goes on to the re-patch, an
\* exit or a death by signal is returned at once.
CeStepWait(k) ==
  /\ pc = "ce_stepwait"
  /\ WaitReady
  /\ KilledInWait(k)
  /\ LET r == wait(~k)
     IN /\ AfterWait(k)
        /\ log' = Append(log, WaitOp(r))
        /\ CASE StepArm(r) = "panicked" ->
                  /\ pc' = "panicked"
                  /\ msg' = "panic"
                  /\ UNCHANGED <<status, crip>>
             [] StepArm(r) = "ce_repatch" ->
                  /\ pc' = "ce_repatch"
                  /\ UNCHANGED <<status, msg, crip>>
             [] OTHER -> Return(r)
  /\ UNCHANGED <<cmd, inferior, killed, breakpoints, mem, rip, loops, orphans>>
  /\ UNCHANGED call
  /\ UNCHANGED <<rbp, frames>>

\* `self.write_byte(rip - 1, 0xcc).unwrap()`
CeRepatch ==
  /\ pc = "ce_repatch"
  /\ LET r == write_byte(mem, PtraceOk, crip - 1, TRAP)
     IN /\ mem' = r.mem
        /\ log' = Append(log, Op("write_byte", crip - 1, TRAP, r.ok))
        /\ IF r.ok
           THEN /\ pc' = ProtocolNext("ce_repatch")
                /\ msg' = msg
           ELSE /\ pc' = "panicked"
                /\ msg' = "panic"
  /\ UNCHANGED <<cmd, inferior, killed, breakpoints, pstate, wstatus, rip, loops,
                 hit, orphans, crip, status>>
  /\ UNCHANGED call
  /\ UNCHANGED <<rbp, frames>>

\* `ptrace::cont(self.pid(), None)?`
CeCont ==
  /\ pc = "ce_cont"
  /\ IF PtraceOk
     THEN /\ pstate' = "running"
          /\ log' = Append(log, Op("cont", 0, 0, TRUE))
          /\ pc' = ProtocolNext("ce_cont")
          /\ UNCHANGED <<status, msg, crip>>
     ELSE /\ log' = Append(log, Op("cont", 0, 0, FALSE))
          /\ Return(StatusErr)
          /\ UNCHANGED pstate
  /\ UNCHANGED <<cmd, inferior, killed, breakpoints, wstatus, mem, rip, loops, hit, orphans>>
  /\ UNCHANGED call
  /\ UNCHANGED <<rbp, frames>>

\* `self.wait(None)`, returned to debugger_next
CeWait(k) ==
  /\ pc = "ce_wait"
  /\ WaitReady
  /\ KilledInWait(k)
  /\ LET r == wait(~k)
     IN /\ AfterWait(k)
        /\ log' = Append(log, WaitOp(r))
        /\ Return(r)
  /\ UNCHANGED <<cmd, inferior, killed, breakpoints, mem, rip, loops, orphans>>
  /\ UNCHANGED call
  /\ UNCHANGED <<rbp, frames>>

\* ------------------------------------------------------------ the target
\* The child runs only between a step or cont and the stop, exit or death
\* that ends it.
Runs == pstate \in {"running", "stepping"} /\ wstatus = NoStatus

\* The byte at rip is the program's own instruction.
OwnInstr == rip \in Code /\ ByteAt(mem, rip) = ByteAt(Image, rip)

\* After one instruction a single-stepped child stops with SIGTRAP.
AfterInstr ==
  IF pstate = "stepping"
  THEN pstate' = "stopped" /\ wstatus' = Stopped("SIGTRAP", 0)
  ELSE UNCHANGED <<pstate, wstatus>>

tvars == <<pc, cmd, inferior, killed, breakpoints, rbp, orphans, crip, log, status,
           msg, call, frames>>

\* The child executes a trap opcode: it stops with SIGTRAP, its
\* instruction pointer one byte past the trap.
TargetTrap ==
  /\ Runs
  /\ ByteAt(mem, rip) = TRAP
  /\ rip' = rip + 1
  /\ hit' = rip
  /\ pstate' = "stopped"
  /\ wstatus' = Stopped("SIGTRAP", 0)
  /\ UNCHANGED <<mem, loops>>
  /\ UNCHANGED tvars

\* The child executes an instruction other than its last one.  A byte that
\* is neither a trap nor the program's instruction is an illegal
\* instruction: the kernel stops the traced child for its tracer with
\* SIGILL, the instruction pointer still at that byte, and the child stays
\* alive.
TargetInstr ==
  /\ Runs
  /\ ByteAt(mem, rip) # TRAP
  /\ rip # LastAddr \/ ~OwnInstr
  /\ IF OwnInstr
     THEN /\ rip' = rip + 1
          /\ AfterInstr
     ELSE /\ pstate' = "stopped"
          /\ wstatus' = Stopped("SIGILL", 0)
          /\ UNCHANGED rip
  /\ hit' = NoHit
  /\ UNCHANGED <<mem, loops>>
  /\ UNCHANGED tvars

\* The last instruction jumps back to the first ...
TargetLoop ==
  /\ Runs
  /\ rip = LastAddr
  /\ OwnInstr
  /\ loops < MaxLoops
  /\ rip' = FirstAddr
  /\ loops' = loops + 1
  /\ AfterInstr
  /\ hit' = NoHit
  /\ UNCHANGED mem
  /\ UNCHANGED tvars

\* ... or exits.
TargetExit(code) ==
  /\ Runs
  /\ rip = LastAddr
  /\ OwnInstr
  /\ pstate' = "dead"
  /\ wstatus' = Exited(code)
  /\ hit' = NoHit
  /\ UNCHANGED <<mem, rip, loops>>
  /\ UNCHANGED tvars

\* A signal (SIGINT from the terminal) stops the traced child before its
\* next instruction.
TargetSigStop ==
  /\ Runs
  /\ pstate' = "stopped"
  /\ wstatus' = Stopped("SIGINT", 0)
  /\ hit' = NoHit
  /\ UNCHANGED <<mem, rip, loops>>
  /\ UNCHANGED tvars

\* A signal kills the running child.
TargetSigKill ==
  /\ Runs
  /\ pstate' = "dead"
  /\ wstatus' = Signaled("SIGKILL")
  /\ hit' = NoHit
  /\ UNCHANGED <<mem, rip, loops>>
  /\ UNCHANGED tvars

\* A SIGKILL from outside the session (another terminal, the OOM killer)
\* ends the child while it is in ptrace-stop; a stop status not yet
\* collected is replaced by the death.
EnvKill ==
  /\ pstate = "stopped"
  /\ pstate' = "dead"
  /\ wstatus' = Signaled("SIGKILL")
  /\ hit' = NoHit
  /\ UNCHANGED <<mem, rip, loops>>
  /\ UNCHANGED tvars

Next ==
  \/ (\E o \in LaunchOutcomes : CmdRun(o, DOMAIN breakpoints)) /\ UNCHANGED <<proxy, pmap>>
  \/ CmdQuit /\ UNCHANGED <<proxy, pmap>>
  \/ CmdContinue /\ UNCHANGED <<proxy, pmap>>
  \/ CmdBacktrace /\ UNCHANGED <<proxy, pmap>>
  \/ (\E a \in BpAddrs : CmdBreakpoint(a, FALSE)) /\ UNCHANGED <<proxy, pmap>>
  \/ CeGetRip /\ UNCHANGED <<proxy, pmap>>
  \/ CeUnpatch /\ UNCHANGED <<proxy, pmap>>
  \/ CeSetRip /\ UNCHANGED <<proxy, pmap>>
  \/ CeStep /\ UNCHANGED <<proxy, pmap>>
  \/ CeStepWait(FALSE) /\ UNCHANGED <<proxy, pmap>>
  \/ CeRepatch /\ UNCHANGED <<proxy, pmap>>
  \/ CeCont /\ UNCHANGED <<proxy, pmap>>
  \/ CeWait(FALSE) /\ UNCHANGED <<proxy, pmap>>
  \/ TargetTrap /\ UNCHANGED <<proxy, pmap>>
  \/ TargetInstr /\ UNCHANGED <<proxy, pmap>>
  \/ TargetLoop /\ UNCHANGED <<proxy, pmap>>
  \/ (\E c \in ExitCodes : TargetExit(c)) /\ UNCHANGED <<proxy, pmap>>
  \/ TargetSigStop /\ UNCHANGED <<proxy, pmap>>
  \/ TargetSigKill /\ UNCHANGED <<proxy, pmap>>

Spec == Init /\ [][Next]_vars

\* The session with a target that receives no signal.  The debugger's
\* sequential code goes on from one request of a resume to the next, and
\* the operating system keeps scheduling a runnable child.
Commands ==
  \/ (\E o \in LaunchOutcomes : CmdRun(o, DOMAIN breakpoints)) /\ UNCHANGED <<proxy, pmap>>
  \/ CmdQuit /\ UNCHANGED <<proxy, pmap>>
  \/ CmdContinue /\ UNCHANGED <<proxy, pmap>>
  \/ CmdBacktrace /\ UNCHANGED <<proxy, pmap>>
  \/ (\E a \in BpAddrs : CmdBreakpoint(a, FALSE)) /\ UNCHANGED <<proxy, pmap>>
Resume ==
  \/ CeGetRip /\ UNCHANGED <<proxy, pmap>>
  \/ CeUnpatch /\ UNCHANGED <<proxy, pmap>>
  \/ CeSetRip /\ UNCHANGED <<proxy, pmap>>
  \/ CeStep /\ UNCHANGED <<proxy, pmap>>
  \/ CeStepWait(FALSE) /\ UNCHANGED <<proxy, pmap>>
  \/ CeRepatch /\ UNCHANGED <<proxy, pmap>>
  \/ CeCont /\ UNCHANGED <<proxy, pmap>>
  \/ CeWait(FALSE) /\ UNCHANGED <<proxy, pmap>>
TargetRun ==
  \/ TargetTrap /\ UNCHANGED <<proxy, pmap>>
  \/ TargetInstr /\ UNCHANGED <<proxy, pmap>>
  \/ TargetLoop /\ UNCHANGED <<proxy, pmap>>
  \/ (\E c \in ExitCodes : TargetExit(c)) /\ UNCHANGED <<proxy, pmap>>
NextQuiet == Commands \/ Resume \/ TargetRun
SpecQuiet == Init /\ [][NextQuiet]_vars /\ WF_vars(Resume) /\ WF_vars(TargetRun)

\* The session with a child that can be killed from outside at any stop.
NextFault ==
  \/ Next
  \/ EnvKill /\ UNCHANGED <<proxy, pmap>>
  \/ (\E reach \in SUBSET DOMAIN breakpoints :
        reach # DOMAIN breakpoints /\ CmdRun("trap", reach)) /\ UNCHANGED <<proxy, pmap>>
  \/ (\E a \in BpAddrs : CmdBreakpoint(a, TRUE)) /\ UNCHANGED <<proxy, pmap>>
  \/ CeStepWait(TRUE) /\ UNCHANGED <<proxy, pmap>>
  \/ CeWait(TRUE) /\ UNCHANGED <<proxy, pmap>>
SpecFault == Init /\ [][NextFault]_vars

\* ------------------------------------------- write_byte, called directly
\* Memory contents of a stopped child: the program's image, all bits
\* clear, all bits set, and a word of traps next to a mixed one.
Memories ==
  { Image,
    [b \in MappedBases |-> [i \in 1..WordSize |-> 0]],
    [b \in MappedBases |-> [i \in 1..WordSize |-> 255]],
    [b \in MappedBases |->
       IF b = 0 THEN [i \in 1..WordSize |-> TRAP]
                ELSE <<0, 255, 90, 165, 1, 128, 127, 254>>] }
\* Addresses written: first, middle and last byte of a word, in both
\* mapped words, and two in an unmapped word.
Addrs == {0, 7, 8, 13, 15, 16, 21}
\* Byte values written.
Bytes == {0, 90, TRAP, 255}

\* A child stopped under ptrace with any of the memory contents.
InitWB ==
  /\ pc = "prompt"
  /\ cmd = NoCmd
  /\ inferior = "Some"
  /\ killed = FALSE
  /\ breakpoints = <<>>
  /\ pstate = "stopped"
  /\ wstatus = NoStatus
  /\ mem \in Memories
  /\ rip = Entry
  /\ rbp = Base(0)
  /\ loops = 0
  /\ hit = NoHit
  /\ orphans = 0
  /\ crip = 0
  /\ log = <<>>
  /\ status = NoStatus
  /\ msg = ""
  /\ call = NoCall
  /\ frames = <<>>
  /\ ProxyStart(0)
  /\ MapStart(<<>>, 0)

wbvars == <<pc, cmd, inferior, killed, breakpoints, pstate, wstatus, rip, rbp, loops,
            hit, orphans, crip, log, status, msg, frames, proxy, pmap>>

\* b = write_byte(a, v)
WriteByte(a, v) ==
  /\ call.n < MaxWrites
  /\ LET r == write_byte(mem, PtraceOk, a, v)
     IN /\ mem' = r.mem
        /\ call' = [phase |-> "wrote", a |-> a, v |-> v, ok |-> r.ok, b |-> r.orig,
                    m0 |-> mem, v0 |-> v, n |-> call.n + 1]
  /\ UNCHANGED wbvars

\* write_byte(a, b), with the byte b the call before returned
WriteBack ==
  /\ call.phase = "wrote"
  /\ call.ok
  /\ LET r == write_byte(mem, PtraceOk, call.a, call.b)
     IN /\ mem' = r.mem
        /\ call' = [call EXCEPT !.phase = "restored", !.v = call.b,
                                !.ok = r.ok, !.b = r.orig]
  /\ UNCHANGED wbvars

NextWB ==
  \/ \E a \in Addrs, v \in Bytes : WriteByte(a, v)
  \/ WriteBack

SpecWB == InitWB /\ [][NextWB]_vars

\* ------------------------------------------- breakpoint specifications
\* A specification is the string typed after `b`, here a sequence of
\* characters.  Option<usize>::None is NoAddr.
NoAddr == 0 - 1
DecDigits == <<"0", "1", "2", "3", "4", "5", "6", "7", "8", "9">>
HexLower == <<"a", "b", "c", "d", "e", "f">>
HexUpper == <<"A", "B", "C", "D", "E", "F">>
Index(seq, c) == CHOOSE i \in 1..Len(seq) : seq[i] = c
Has(seq, c) == \E i \in 1..Len(seq) : seq[i] = c

\* char::to_digit(radix) for radix 10 and 16; NoAddr for None
to_digit(c, radix) ==
  IF Has(DecDigits, c) THEN Index(DecDigits, c) - 1
  ELSE IF radix = 16 /\ Has(HexLower, c) THEN 9 + Index(HexLower, c)
  ELSE IF radix = 16 /\ Has(HexUpper, c) THEN 9 + Index(HexUpper, c)
  ELSE NoAddr

\* acc.checked_mul(radix) and then .checked_add(digit) on a usize held as
\* its eight bytes: carry[i] is what acc * radix + digit carries out of byte
\* i, and a carry out of the last byte is the overflow (None, here the empty
\* tuple).
checked_mul_add(acc, radix, digit) ==
  LET carry[i \in 0..WordSize] ==
        IF i = 0 THEN digit ELSE (acc[i] * radix + carry[i - 1]) \div 256
  IN IF carry[WordSize] # 0 THEN <<>>
     ELSE [i \in 1..WordSize |-> (acc[i] * radix + carry[i - 1]) % 256]

\* The digit loop of from_str_radix: the word the digits denote, the empty
\* tuple for a character that is no digit of the radix (InvalidDigit) and
\* for a value that does not fit a usize (PosOverflow).
RECURSIVE Accumulate(_, _, _)
Accumulate(s, radix, acc) ==
  IF s = <<>> THEN acc
  ELSE LET digit == to_digit(Head(s), radix)
           next == IF digit = NoAddr THEN <<>> ELSE checked_mul_add(acc, radix, digit)
       IN IF next = <<>> THEN <<>> ELSE Accumulate(Tail(s), radix, next)

\* usize::from_str_radix(s, radix).ok(): an optional `+`, then one digit
\* or more, the value within a usize.  The value is given as the address it
\* is in the model (WordVal).
from_str_radix(s, radix) ==
  LET digits == IF s # <<>> /\ Head(s) = "+" THEN Tail(s) ELSE s
      word == Accumulate(digits, radix, ToWord(0))
  IN IF digits = <<>> \/ word = <<>> THEN NoAddr ELSE WordVal(word)

\* parse_address: an optional 0x or 0X, then hexadecimal.
parse_address(addr) ==
  LET addr_without_0x ==
        IF Len(addr) >= 2 /\ addr[1] = "0" /\ addr[2] \in {"x", "X"}
        THEN SubSeq(addr, 3, Len(addr))
        ELSE addr
  IN from_str_radix(addr_without_0x, 16)

\* type_breakpoint: Point::Addr, Point::Line or Point::Func; kind "Panic"
\* is the unwrap of parse_address's None.
Point(kind, num, name) == [kind |-> kind, num |-> num, name |-> name]
type_breakpoint(point) ==
  IF point # <<>> /\ Head(point) = "*"
  THEN LET addr == parse_address(Tail(point))
       IN IF addr = NoAddr
          THEN Point("Panic", NoAddr, <<>>)
          ELSE Point("Addr", addr, <<>>)
  ELSE LET line == from_str_radix(point, 10)
       IN IF line # NoAddr
          THEN Point("Line", line, <<>>)
          ELSE Point("Func", NoAddr, point)

\* DwarfData::get_addr_for_line: main's four lines are its four
\* instructions.
get_addr_for_line(line) ==
  IF line \in 1..(LastAddr - FirstAddr + 1) THEN FirstAddr + line - 1 ELSE NoAddr

\* DwarfData::get_addr_for_function
get_addr_for_function(func) ==
  IF func = <<"m", "a", "i", "n">> THEN FirstAddr ELSE NoAddr

\* The match of the Breakpoint arm on type_breakpoint(point): the address
\* the specification stands for, NoAddr where an unwrap panics.
Location(point) ==
  LET p == type_breakpoint(point)
  IN CASE p.kind = "Line" -> get_addr_for_line(p.num)
       [] p.kind = "Func" -> get_addr_for_function(p.name)
       [] p.kind = "Addr" -> p.num
       [] OTHER -> NoAddr

\* The specifications typed: *6, *0x9, *0X6, *10, 4, +4, main, and *g, 99,
\* x, -1, *; then around the largest usize: *10000000000000000 (2^64 in
\* hexadecimal), 18446744073709551615 and 18446744073709551616 (2^64).
BpTexts ==
  { <<"*", "6">>, <<"*", "0", "x", "9">>, <<"*", "0", "X", "6">>, <<"*", "1", "0">>,
    <<"4">>, <<"+", "4">>, <<"m", "a", "i", "n">>,
    <<"*", "g">>, <<"9", "9">>, <<"x">>, <<"-", "1">>, <<"*">>,
    <<"*", "1", "0", "0", "0", "0", "0", "0", "0", "0", "0", "0", "0", "0", "0", "0", "0", "0">>,
    <<"1", "8", "4", "4", "6", "7", "4", "4", "0", "7", "3", "7", "0", "9", "5", "5", "1", "6", "1", "5">>,
    <<"1", "8", "4", "4", "6", "7", "4", "4", "0", "7", "3", "7", "0", "9", "5", "5", "1", "6", "1", "6">> }

\* DebuggerCommand::Breakpoint(point): resolve the specification, then go
\* on as for the address it stands for.
CmdBreak(point) ==
  LET location == Location(point)
  IN
  IF location = NoAddr
  THEN /\ pc = "prompt"
       /\ cmd' = Cmd("break", NoAddr)
       /\ log' = <<>>
       /\ status' = NoStatus
       /\ frames' = <<>>
       /\ pc' = "panicked"
       /\ msg' = "panic"
       /\ UNCHANGED <<inferior, killed, breakpoints, target, orphans, crip, call>>
  ELSE CmdBreakpoint(location, FALSE)

\* The session with breakpoints typed as specifications.
NextBP ==
  \/ (\E o \in LaunchOutcomes : CmdRun(o, DOMAIN breakpoints)) /\ UNCHANGED <<proxy, pmap>>
  \/ CmdQuit /\ UNCHANGED <<proxy, pmap>>
  \/ CmdContinue /\ UNCHANGED <<proxy, pmap>>
  \/ CmdBacktrace /\ UNCHANGED <<proxy, pmap>>
  \/ (\E t \in BpTexts : CmdBreak(t)) /\ UNCHANGED <<proxy, pmap>>
  \/ Resume
  \/ TargetRun
  \/ TargetSigStop /\ UNCHANGED <<proxy, pmap>>
  \/ TargetSigKill /\ UNCHANGED <<proxy, pmap>>
SpecBP == Init /\ [][NextBP]_vars

\* --------------------------------------- backtrace of a stopped child
\* Where in the function it is stopped in the child is: past the prologue,
\* with the function's frame set up, or at the function's first
\* instruction, with the frame-base register still the caller's.
Wheres == {"body", "entry"}
\* What is wrong with the innermost frame on the stack: nothing, a saved
\* frame base that points to unmapped memory, or a return address that
\* belongs to no function.
Faults == {"none", "bad_bp", "bad_ret"}

\* How many frames below main's are set up.
SetUp(n, where) == IF where = "entry" THEN n - 1 ELSE n

\* The memory of a child n calls below main.
StackOf(n, where, fault) ==
  LET top == SetUp(n, where)
  IN [b \in MappedBases |->
        IF \E k \in 1..top : b = Base(k)
        THEN IF fault = "bad_bp" /\ b = Base(top) THEN ToWord(BadAddr)
             ELSE ToWord(Base((CHOOSE k \in 1..top : b = Base(k)) - 1))
        ELSE IF \E k \in 1..top : b = Base(k) + WordSize
        THEN IF fault = "bad_ret" /\ b = Base(top) + WordSize THEN ToWord(0)
             ELSE ToWord(RetAddr((CHOOSE k \in 1..top : b = Base(k) + WordSize) - 1))
        ELSE Image[b]]

\* A child stopped under ptrace somewhere in main or in a callee.
InitBT ==
  /\ pc = "prompt"
  /\ cmd = NoCmd
  /\ inferior = "Some"
  /\ killed = FALSE
  /\ breakpoints = <<>>
  /\ pstate = "stopped"
  /\ wstatus = NoStatus
  /\ \E n \in 0..MaxDepth, where \in Wheres, fault \in Faults :
       /\ n = 0 => where = "body"
       /\ SetUp(n, where) = 0 => fault = "none"
       /\ mem = StackOf(n, where, fault)
       /\ rip = IF n = 0 THEN Entry
                ELSE IF where = "entry" THEN FuncEntry(n) ELSE FuncEntry(n) + 2
       /\ rbp = Base(SetUp(n, where))
  /\ loops = 0
  /\ hit = NoHit
  /\ orphans = 0
  /\ crip = 0
  /\ log = <<>>
  /\ status = NoStatus
  /\ msg = ""
  /\ call = NoCall
  /\ frames = <<>>
  /\ ProxyStart(0)
  /\ MapStart(<<>>, 0)

\* The commands that leave the child stopped.
NextBT ==
  \/ CmdBacktrace /\ UNCHANGED <<proxy, pmap>>
  \/ (\E a \in BpAddrs : CmdBreakpoint(a, FALSE)) /\ UNCHANGED <<proxy, pmap>>
  \/ CmdQuit /\ UNCHANGED <<proxy, pmap>>

SpecBT == InitBT /\ [][NextBT]_vars

\* --------------------------------------------------- the balancebeam proxy
\* The health check holds the write lock of active_upstream from the start
\* of a round to its end, across the awaits on its connections.  Handlers
\* take the locks for single steps only.
WriteLocked == hc.pc = "round"

\* Vec::swap_remove(idx), idx counted from 0: the last element takes the
\* place of the removed one.
swap_remove(v, idx) ==
  [i \in 1..(Len(v) - 1) |-> IF i = idx + 1 THEN v[Len(v)] ELSE v[i]]

\* ip_count after update_ip_info(ip)
update_ip_info(ipc, ip, limit) ==
  IF limit = 0 THEN ipc
  ELSE Insert(ipc, ip, (IF ip \in DOMAIN ipc THEN ipc[ip] ELSE 0) + 1)

check_ip_rate_limit(ipc, ip, limit) ==
  IF ip \notin DOMAIN ipc \/ limit = 0 THEN FALSE
  ELSE ipc[ip] > limit

\* handle_connection returns (or its task panics): the connection is closed.
Closed(c, resp) ==
  [NoConn EXCEPT !.pc = "closed", !.ip = c.ip, !.resp = resp, !.reqs = c.reqs]

\* main's accept loop spawns handle_connection for a client at `ip`.
Accept(h, ip) ==
  /\ conn[h].pc = "idle"
  /\ conn' = [conn EXCEPT ![h].pc = "pick", ![h].ip = ip]
  /\ UNCHANGED <<max_requests_per_minute, active_upstream, ip_count, hc, servers,
                 flips, window, forwarded>>

\* connect_to_upstream, under the read lock: a random index into the
\* active list.  gen_range panics on an empty range.
ConnPick(h) ==
  /\ conn[h].pc = "pick"
  /\ ~WriteLocked
  /\ IF Len(active_upstream) = 0
     THEN conn' = [conn EXCEPT ![h].pc = "panicked"]
     ELSE \E idx \in 0..(Len(active_upstream) - 1) :
            conn' = [conn EXCEPT ![h].pc = "connecting", ![h].idx = idx,
                                 ![h].up = active_upstream[idx + 1]]
  /\ UNCHANGED <<max_requests_per_minute, active_upstream, ip_count, hc, servers,
                 flips, window, forwarded>>

\* connect_to_upstream: TcpStream::connect(upstream_ip)
ConnConnect(h) ==
  /\ conn[h].pc = "connecting"
  /\ conn' = [conn EXCEPT ![h].pc =
                IF servers[conn[h].up] = "down" THEN "remove" ELSE "read"]
  /\ UNCHANGED <<max_requests_per_minute, active_upstream, ip_count, hc, servers,
                 flips, window, forwarded>>

\* connect_to_upstream after a failed connection, under the write lock:
\* swap_remove(idx), which panics on an index past the end; with no
\* upstream left the handler answers 502 and returns.
ConnRemove(h) ==
  /\ conn[h].pc = "remove"
  /\ ~WriteLocked
  /\ IF conn[h].idx >= Len(active_upstream)
     THEN /\ conn' = [conn EXCEPT ![h].pc = "panicked"]
          /\ UNCHANGED active_upstream
     ELSE /\ active_upstream' = swap_remove(active_upstream, conn[h].idx)
          /\ conn' = [conn EXCEPT ![h] =
                        IF Len(active_upstream') = 0
                        THEN Closed(conn[h], BAD_GATEWAY)
                        ELSE [conn[h] EXCEPT !.pc = "pick"]]
  /\ UNCHANGED <<max_requests_per_minute, ip_count, hc, servers, flips, window,
                 forwarded>>

\* The client closes the connection: read_from_stream finds no request.
Hangup(h) ==
  /\ conn[h].pc = "read"
  /\ conn' = [conn EXCEPT ![h] = Closed(conn[h], conn[h].resp)]
  /\ UNCHANGED <<max_requests_per_minute, active_upstream, ip_count, hc, servers,
                 flips, window, forwarded>>

\* read_from_stream returns an error other than the client's hanging up:
\* the request is answered 400 (incomplete, malformed, bad content length)
\* or 413 (RequestBodyTooLarge), and the loop goes on.
BadRequest(h, code) ==
  /\ conn[h].pc = "read"
  /\ conn[h].reqs < MaxReqs
  /\ conn' = [conn EXCEPT ![h].resp = code, ![h].reqs = conn[h].reqs + 1]
  /\ UNCHANGED <<max_requests_per_minute, active_upstream, ip_count, hc, servers,
                 flips, window, forwarded>>

\* A request is read and update_ip_info counts it.
Request(h) ==
  /\ conn[h].pc = "read"
  /\ conn[h].reqs < MaxReqs
  /\ ip_count' = update_ip_info(ip_count, conn[h].ip, max_requests_per_minute)
  /\ conn' = [conn EXCEPT ![h].pc = "check", ![h].reqs = conn[h].reqs + 1]
  /\ UNCHANGED <<max_requests_per_minute, active_upstream, hc, servers, flips,
                 window, forwarded>>

\* check_ip_rate_limit: over the limit, the handler answers 429 and returns.
Check(h) ==
  /\ conn[h].pc = "check"
  /\ conn' = [conn EXCEPT ![h] =
                IF check_ip_rate_limit(ip_count, conn[h].ip, max_requests_per_minute)
                THEN Closed(conn[h], TOO_MANY_REQUESTS)
                ELSE [conn[h] EXCEPT !.pc = "forward"]]
  /\ UNCHANGED <<max_requests_per_minute, active_upstream, ip_count, hc, servers,
                 flips, window, forwarded>>

\* write_to_stream: the request is written to the upstream; an upstream
\* that has gone away makes the handler answer 502 and return.
Forward(h) ==
  /\ conn[h].pc = "forward"
  /\ IF servers[conn[h].up] = "down"
     THEN /\ conn' = [conn EXCEPT ![h] = Closed(conn[h], BAD_GATEWAY)]
          /\ UNCHANGED forwarded
     ELSE /\ forwarded' = [forwarded EXCEPT ![conn[h].ip] = @ + 1]
          /\ conn' = [conn EXCEPT ![h].pc = "response"]
  /\ UNCHANGED <<max_requests_per_minute, active_upstream, ip_count, hc, servers,
                 flips, window>>

\* response::read_from_stream on the upstream, after the request was sent:
\* the response is sent on to the client and the loop goes on; an upstream
\* that has gone away since makes the handler answer 502 and return.
Respond(h) ==
  /\ conn[h].pc = "response"
  /\ conn' = [conn EXCEPT ![h] =
                IF servers[conn[h].up] = "down"
                THEN Closed(conn[h], BAD_GATEWAY)
                ELSE [conn[h] EXCEPT !.pc = "read",
                                     !.resp = IF servers[conn[h].up] = "up" THEN OK
                                              ELSE INTERNAL_SERVER_ERROR]]
  /\ UNCHANGED <<max_requests_per_minute, active_upstream, ip_count, hc, servers,
                 flips, window, forwarded>>

\* count_reset wakes up and clears the counters.
CountReset ==
  /\ window < MaxWindows
  /\ ip_count' = <<>>
  /\ window' = window + 1
  /\ UNCHANGED <<max_requests_per_minute, active_upstream, conn, hc, servers,
                 flips, forwarded>>

\* active_health_check wakes up, takes the write lock and clears the list.
HcStart ==
  /\ hc.pc = "sleep"
  /\ hc.rounds < MaxRounds
  /\ hc' = [hc EXCEPT !.pc = "round", !.i = 1, !.probes = NoProbes]
  /\ active_upstream' = <<>>
  /\ UNCHANGED <<max_requests_per_minute, ip_count, conn, servers, flips, window,
                 forwarded>>

\* active_health_check returns from inside the loop: the write lock is
\* dropped with the list as far as the round got, and no round follows.
HcReturn(upstream_ip) ==
  [hc EXCEPT !.pc = "returned", !.at = "connect", !.probes[upstream_ip] = "bad",
             !.rounds = hc.rounds + 1]

\* One turn of the loop over upstream_addresses begins:
\* TcpStream::connect(upstream_ip).  A failed connection returns from
\* active_health_check.
HcProbe ==
  /\ hc.pc = "round"
  /\ hc.at = "connect"
  /\ hc.i <= Len(upstream_addresses)
  /\ LET upstream_ip == upstream_addresses[hc.i]
     IN hc' = IF servers[upstream_ip] = "down" THEN HcReturn(upstream_ip)
              ELSE [hc EXCEPT !.at = "write"]
  /\ UNCHANGED <<max_requests_per_minute, active_upstream, ip_count, conn, servers,
                 flips, window, forwarded>>

\* write_to_stream of the health request; a failure returns.
HcWrite ==
  /\ hc.pc = "round"
  /\ hc.at = "write"
  /\ LET upstream_ip == upstream_addresses[hc.i]
     IN hc' = IF servers[upstream_ip] = "down" THEN HcReturn(upstream_ip)
              ELSE [hc EXCEPT !.at = "read"]
  /\ UNCHANGED <<max_requests_per_minute, active_upstream, ip_count, conn, servers,
                 flips, window, forwarded>>

\* read_from_stream of the upstream's answer and the match on its status:
\* 200 puts the upstream on the list and the loop goes on; a failed read or
\* any other status returns.
HcRead ==
  /\ hc.pc = "round"
  /\ hc.at = "read"
  /\ LET upstream_ip == upstream_addresses[hc.i]
     IN IF servers[upstream_ip] = "up"
        THEN /\ active_upstream' = Append(active_upstream, upstream_ip)
             /\ hc' = [hc EXCEPT !.i = hc.i + 1, !.at = "connect",
                                 !.probes[upstream_ip] = "ok"]
        ELSE /\ hc' = HcReturn(upstream_ip)
             /\ UNCHANGED active_upstream
  /\ UNCHANGED <<max_requests_per_minute, ip_count, conn, servers, flips, window,
                 forwarded>>

\* The loop over upstream_addresses is through: the write lock is dropped
\* and the task sleeps again.
HcEnd ==
  /\ hc.pc = "round"
  /\ hc.at = "connect"
  /\ hc.i > Len(upstream_addresses)
  /\ hc' = [hc EXCEPT !.pc = "sleep", !.rounds = hc.rounds + 1]
  /\ UNCHANGED <<max_requests_per_minute, active_upstream, ip_count, conn, servers,
                 flips, window, forwarded>>

\* An upstream server goes down, starts failing, or comes back.
ServerFlip(u, to) ==
  /\ flips < MaxFlips
  /\ servers[u] # to
  /\ servers' = [servers EXCEPT ![u] = to]
  /\ flips' = flips + 1
  /\ UNCHANGED <<max_requests_per_minute, active_upstream, ip_count, conn, hc,
                 window, forwarded>>

\* The proxy started with any limit.  Within the time the clients take, the
\* counter-reset task wakes up and the health check does not.
InitLB ==
  /\ DebuggerStart
  /\ \E n \in Limits : ProxyStart(n)
  /\ MapStart(<<>>, 0)

NextLB ==
  \/ (\E h \in Handlers, ip \in ClientIps : Accept(h, ip)) /\ UNCHANGED <<debugger, pmap>>
  \/ (\E h \in Handlers : ConnPick(h)) /\ UNCHANGED <<debugger, pmap>>
  \/ (\E h \in Handlers : ConnConnect(h)) /\ UNCHANGED <<debugger, pmap>>
  \/ (\E h \in Handlers : ConnRemove(h)) /\ UNCHANGED <<debugger, pmap>>
  \/ (\E h \in Handlers : Hangup(h)) /\ UNCHANGED <<debugger, pmap>>
  \/ (\E h \in Handlers, code \in {BAD_REQUEST, PAYLOAD_TOO_LARGE} : BadRequest(h, code))
       /\ UNCHANGED <<debugger, pmap>>
  \/ (\E h \in Handlers : Request(h)) /\ UNCHANGED <<debugger, pmap>>
  \/ (\E h \in Handlers : Check(h)) /\ UNCHANGED <<debugger, pmap>>
  \/ (\E h \in Handlers : Forward(h)) /\ UNCHANGED <<debugger, pmap>>
  \/ (\E h \in Handlers : Respond(h)) /\ UNCHANGED <<debugger, pmap>>
  \/ CountReset /\ UNCHANGED <<debugger, pmap>>
  \/ (\E u \in Upstreams, to \in {"up", "down", "sick"} : ServerFlip(u, to))
       /\ UNCHANGED <<debugger, pmap>>

SpecLB == InitLB /\ [][NextLB]_vars

\* The proxy with no rate limit, its health check running.
NextHC ==
  \/ (\E h \in Handlers, ip \in ClientIps : Accept(h, ip)) /\ UNCHANGED <<debugger, pmap>>
  \/ (\E h \in Handlers : ConnPick(h)) /\ UNCHANGED <<debugger, pmap>>
  \/ (\E h \in Handlers : ConnConnect(h)) /\ UNCHANGED <<debugger, pmap>>
  \/ (\E h \in Handlers : ConnRemove(h)) /\ UNCHANGED <<debugger, pmap>>
  \/ (\E h \in Handlers : Hangup(h)) /\ UNCHANGED <<debugger, pmap>>
  \/ (\E h \in Handlers, code \in {BAD_REQUEST, PAYLOAD_TOO_LARGE} : BadRequest(h, code))
       /\ UNCHANGED <<debugger, pmap>>
  \/ (\E h \in Handlers : Request(h)) /\ UNCHANGED <<debugger, pmap>>
  \/ (\E h \in Handlers : Check(h)) /\ UNCHANGED <<debugger, pmap>>
  \/ (\E h \in Handlers : Forward(h)) /\ UNCHANGED <<debugger, pmap>>
  \/ (\E h \in Handlers : Respond(h)) /\ UNCHANGED <<debugger, pmap>>
  \/ HcStart /\ UNCHANGED <<debugger, pmap>>
  \/ HcProbe /\ UNCHANGED <<debugger, pmap>>
  \/ HcWrite /\ UNCHANGED <<debugger, pmap>>
  \/ HcRead /\ UNCHANGED <<debugger, pmap>>
  \/ HcEnd /\ UNCHANGED <<debugger, pmap>>
  \/ (\E u \in Upstreams, to \in {"up", "down", "sick"} : ServerFlip(u, to))
       /\ UNCHANGED <<debugger, pmap>>

SpecHC == Init /\ [][NextHC]_vars

\* ----------------------------------------------------------- parallel_map
\* Vec::pop: the vector without its last element.
Front(v) == SubSeq(v, 1, Len(v) - 1)

\* `for index in (0..input_vec.len()).rev()`: one turn sends the pair of
\* the index and the element popped.
MapSend ==
  /\ caller.pc = "send"
  /\ caller.index >= 0
  /\ work' = Append(work, <<caller.index, input_vec[Len(input_vec)]>>)
  /\ input_vec' = Front(input_vec)
  /\ caller' = [caller EXCEPT !.index = caller.index - 1]
  /\ UNCHANGED <<given, num_threads, output_vec, tx_live, results, tx1_live,
                 threads, applied>>

\* drop(tx)
MapDropTx ==
  /\ caller.pc = "send"
  /\ caller.index < 0
  /\ tx_live' = tx_live - 1
  /\ caller' = [caller EXCEPT !.pc = "spawn"]
  /\ UNCHANGED <<given, num_threads, input_vec, output_vec, work, results,
                 tx1_live, threads, applied>>

\* `for _ in 0..num_threads`: one turn clones rx and tx1 and spawns a worker.
MapSpawn ==
  /\ caller.pc = "spawn"
  /\ caller.spawned < num_threads
  /\ tx1_live' = tx1_live + 1
  /\ threads' = [threads EXCEPT ![caller.spawned + 1].pc = "recv"]
  /\ caller' = [caller EXCEPT !.spawned = caller.spawned + 1]
  /\ UNCHANGED <<given, num_threads, input_vec, output_vec, work, tx_live,
                 results, applied>>

\* MapDropTx1 with the caller's sender kept.
MapDropTx1_Kept ==
  /\ caller.pc = "spawn"
  /\ caller.spawned = num_threads
  /\ caller' = [caller EXCEPT !.pc = "collect"]
  /\ UNCHANGED <<given, num_threads, input_vec, output_vec, work, tx_live,
                 results, tx1_live, threads, applied>>

\* drop(tx1)
MapDropTx1 ==
  /\ caller.pc = "spawn"
  /\ caller.spawned = num_threads
  /\ tx1_live' = tx1_live - 1
  /\ caller' = [caller EXCEPT !.pc = "collect"]
  /\ UNCHANGED <<given, num_threads, input_vec, output_vec, work, tx_live,
                 results, threads, applied>>

\* MapCollect with each result stored in the order of its arrival.
MapCollect_Arrival ==
  /\ caller.pc = "collect"
  /\ IF results # <<>>
     THEN /\ output_vec' = [output_vec EXCEPT ![Len(caller.order) + 1] = Head(results)[2]]
          /\ results' = Tail(results)
          /\ caller' = [caller EXCEPT !.order = Append(caller.order, Head(results)[1])]
     ELSE /\ tx1_live = 0
          /\ caller' = [caller EXCEPT !.pc = "join"]
          /\ UNCHANGED <<output_vec, results>>
  /\ UNCHANGED <<given, num_threads, input_vec, work, tx_live, tx1_live, threads,
                 applied>>

\* `while let Ok((index, number)) = rx1.recv()`: a pair is stored at its
\* index; recv blocks on an empty channel that has senders, and fails, ending
\* the loop, on an empty channel that has none.
MapCollect ==
  /\ caller.pc = "collect"
  /\ IF results # <<>>
     THEN /\ output_vec' = [output_vec EXCEPT ![Head(results)[1] + 1] = Head(results)[2]]
          /\ results' = Tail(results)
          /\ caller' = [caller EXCEPT !.order = Append(caller.order, Head(results)[1])]
     ELSE /\ tx1_live = 0
          /\ caller' = [caller EXCEPT !.pc = "join"]
          /\ UNCHANGED <<output_vec, results>>
  /\ UNCHANGED <<given, num_threads, input_vec, work, tx_live, tx1_live, threads,
                 applied>>

\* `for thread in threads { thread.join().unwrap() }`: one turn waits for
\* the next worker to have exited; after the last, output_vec is returned.
MapJoin ==
  /\ caller.pc = "join"
  /\ IF caller.joined < caller.spawned
     THEN /\ threads[caller.joined + 1].pc = "exited"
          /\ caller' = [caller EXCEPT !.joined = caller.joined + 1]
     ELSE caller' = [caller EXCEPT !.pc = "done"]
  /\ UNCHANGED <<given, num_threads, input_vec, output_vec, work, tx_live,
                 results, tx1_live, threads, applied>>

\* A worker's `revice_number.recv()`: it takes the next pair; on an empty
\* channel it blocks while a sender lives, and else leaves its loop and
\* exits, dropping its clone of tx1.
WorkerRecv(w) ==
  /\ threads[w].pc = "recv"
  /\ IF work # <<>>
     THEN /\ threads' = [threads EXCEPT ![w].pc = "apply",
                                        ![w].index = Head(work)[1],
                                        ![w].number = Head(work)[2]]
          /\ work' = Tail(work)
          /\ UNCHANGED tx1_live
     ELSE /\ tx_live = 0
          /\ threads' = [threads EXCEPT ![w] = [NoThread EXCEPT !.pc = "exited"]]
          /\ tx1_live' = tx1_live - 1
          /\ UNCHANGED work
  /\ UNCHANGED <<given, num_threads, input_vec, output_vec, tx_live, results,
                 caller, applied>>

\* `let result = f(number)`
WorkerApply(w) ==
  /\ threads[w].pc = "apply"
  /\ threads' = [threads EXCEPT ![w].pc = "send", ![w].result = f(threads[w].number)]
  /\ applied' = [applied EXCEPT ![threads[w].index] = @ + 1]
  /\ UNCHANGED <<given, num_threads, input_vec, output_vec, work, tx_live,
                 results, tx1_live, caller>>

\* `send_result.send((index, result)).unwrap()`
WorkerSend(w) ==
  /\ threads[w].pc = "send"
  /\ results' = Append(results, <<threads[w].index, threads[w].result>>)
  /\ threads' = [threads EXCEPT ![w] = [NoThread EXCEPT !.pc = "recv"]]
  /\ UNCHANGED <<given, num_threads, input_vec, output_vec, work, tx_live,
                 tx1_live, caller, applied>>

\* parallel_map called with any vector and any number of threads.
InitPM ==
  /\ DebuggerStart
  /\ ProxyStart(0)
  /\ \E v \in Vectors, n \in 0..MaxThreads : MapStart(v, n)

CallerStep ==
  \/ MapSend /\ UNCHANGED <<debugger, proxy>>
  \/ MapDropTx /\ UNCHANGED <<debugger, proxy>>
  \/ MapSpawn /\ UNCHANGED <<debugger, proxy>>
  \/ MapDropTx1 /\ UNCHANGED <<debugger, proxy>>
  \/ MapCollect /\ UNCHANGED <<debugger, proxy>>
  \/ MapJoin /\ UNCHANGED <<debugger, proxy>>
WorkerStep(w) ==
  \/ WorkerRecv(w) /\ UNCHANGED <<debugger, proxy>>
  \/ WorkerApply(w) /\ UNCHANGED <<debugger, proxy>>
  \/ WorkerSend(w) /\ UNCHANGED <<debugger, proxy>>
NextPM == CallerStep \/ \E w \in Workers : WorkerStep(w)

\* The operating system keeps scheduling every thread that can run.
SpecPM ==
  /\ InitPM
  /\ [][NextPM]_vars
  /\ WF_vars(CallerStep)
  /\ \A w \in Workers : WF_vars(WorkerStep(w))

\* ================================================================ claims
IsAct(e) == e.op \notin {"get_rip", "wait"}
\* The requests of a log that change the target's memory, registers or
\* execution, in the order they were issued.
Acts(l) == SelectSeq(l, IsAct)

Mapped(a) == align_addr_to_word(a) \in MappedBases

\* The step-over of a breakpoint at A whose saved byte is orig.
StepOver(A, orig) ==
  << Op("write_byte", A, orig, TRUE), Op("set_rip", A, 0, TRUE),
     Op("step", 0, 0, TRUE), Op("write_byte", A, TRAP, TRUE),
     Op("cont", 0, 0, TRUE) >>

\* C1: when continue_exec finds the instruction pointer minus one in the
\* table (address A), what it does to the target is, in this order: write
\* the saved byte at A, set the instruction pointer to A, single-step, write
\* 0xCC at A, continue; each request follows the success of the one before,
\* and continue_exec returns after all five, or after the first three when
\* the single-step ended the process.
C1_StepOverOrder ==
  (log # <<>> /\ (log[1].addr - 1) \in DOMAIN breakpoints) =>
    LET A == log[1].addr - 1
        acts == Acts(log)
        want == StepOver(A, breakpoints[A].orig_byte)
    IN /\ Len(acts) <= Len(want)
       /\ \A i \in 1..Len(acts) : acts[i] = want[i]
       /\ pc = "prompt" =>
            \/ Len(acts) = 5
            \/ Len(acts) = 3 /\ status.kind \in {"Exited", "Signaled"}

\* A resume has stepped over a breakpoint, continued, and stopped again.
C1_Witness ==
  /\ pc = "prompt"
  /\ Len(log) = 8
  /\ log[2].op = "write_byte"
  /\ log[7].op = "cont"
  /\ status.kind = "Stopped"

\* C2: when the child stopped by executing the trap of a table entry at A,
\* then at the single-step of the step-over the memory at A holds the
\* program's own byte and the instruction pointer is A, and at the following
\* continue the memory at A holds the trap byte again.
C2_StepOverBytes ==
  /\ (pc = "ce_step" /\ hit = crip - 1) =>
       /\ ByteAt(mem, crip - 1) = ByteAt(Image, crip - 1)
       /\ rip = crip - 1
  /\ (pc = "ce_cont" /\ Len(log) > 1) => ByteAt(mem, crip - 1) = TRAP

\* C3: with a live process stopped and the session at its prompt, every
\* table entry (at an address the target has mapped) has the trap opcode in
\* the target's memory and holds the unpatched program's byte.
C3_TableMatchesMemory ==
  (pc = "prompt" /\ inferior = "Some" /\ alive) =>
    \A a \in DOMAIN breakpoints :
      Mapped(a) =>
        /\ ByteAt(mem, a) = TRAP
        /\ breakpoints[a].orig_byte = ByteAt(Image, a)

\* C4: a breakpoint request that repeats the request before it, for an
\* address in the table, changes neither the table nor the target's memory.
C4_Idempotent ==
  [][(pc = "prompt" /\ cmd.name = "break" /\ cmd' = cmd
        /\ cmd.arg \in DOMAIN breakpoints)
       => (breakpoints' = breakpoints /\ mem' = mem)]_vars

\* C5 as claimed: right after a successful launch every entry of the table
\* is patched with the trap and holds the byte of the new address space.
C5_AllPatched ==
  (pc = "ce_getrip" /\ cmd.name = "run") =>
    \A a \in DOMAIN breakpoints :
      /\ Mapped(a)
      /\ ByteAt(mem, a) = TRAP
      /\ breakpoints[a].orig_byte = ByteAt(Image, a)

\* C5, amended: a successful launch leaves the child at its entry point
\* with no instruction executed and the table with the same addresses;
\* every entry whose write succeeded is patched with the trap and holds the
\* byte read from the new address space; every entry whose write failed is
\* as it was, and its byte in the target is not a trap written by the
\* launch.  A write fails only at an unmapped address or when the child was
\* killed from outside during the launch.
C5_LaunchPatches ==
  [][(pc = "prompt" /\ pc' = "ce_getrip" /\ cmd'.name = "run") =>
       /\ DOMAIN breakpoints' = DOMAIN breakpoints
       /\ pstate' \in {"stopped", "dead"} /\ rip' = Entry /\ loops' = 0
       /\ \A a \in DOMAIN breakpoints :
            \/ /\ Mapped(a)
               /\ ByteAt(mem', a) = TRAP
               /\ breakpoints'[a] = Breakpoint(a, ByteAt(Image, a))
            \/ /\ ~Mapped(a) \/ pstate' = "dead"
               /\ breakpoints'[a] = breakpoints[a]
               /\ Mapped(a) => ByteAt(mem', a) = ByteAt(Image, a)]_vars

\* A launch has just succeeded with a mapped and an unmapped entry in the
\* table, the mapped one patched and holding the program's byte.
C5_Witness ==
  /\ pc = "ce_getrip"
  /\ pstate = "stopped"
  /\ cmd.name = "run"
  /\ log = <<>>
  /\ killed = FALSE
  /\ {LastAddr, BadAddr} \subseteq DOMAIN breakpoints
  /\ ByteAt(mem, LastAddr) = TRAP
  /\ breakpoints[LastAddr].orig_byte = ByteAt(Image, LastAddr)

\* C6: after a breakpoint request made while no process is running, the
\* requested address is in the table.
C6_RequestStored ==
  (pc = "prompt" /\ cmd.name = "break" /\ ~(inferior = "Some" /\ LiveProc)) =>
    cmd.arg \in DOMAIN breakpoints

\* C7: at most one process launched by the session is alive.
C7_OneAlive == (IF LiveProc THEN 1 ELSE 0) + orphans <= 1

\* C8: continue or backtrace with no process ever started reports that no
\* process is running and returns to the prompt.
C8_NoProcessReported ==
  (cmd.name \in {"continue", "backtrace"} /\ inferior = "None" /\ ~killed) =>
    (pc = "prompt" /\ msg = "Inferior process is not running")

\* C9: continue after the session killed its process, with no launch since,
\* reports that no process is running and returns to the prompt.
C9_ContinueAfterKill ==
  (cmd.name = "continue" /\ inferior = "None" /\ killed) =>
    (pc = "prompt" /\ msg = "Inferior process is not running")

\* C10: a single-step of the step-over that ends with the process exited or
\* killed by a signal is the last request of continue_exec, which returns
\* that status; one that ends with the process stopped is followed by the
\* write of the trap byte and one continue, whose status is returned.
C10_StepResult ==
  \A i \in 1..Len(log) :
    (log[i].op = "step" /\ i < Len(log)) =>
      /\ log[i + 1].op = "wait"
      /\ IF log[i + 1].res.kind \in {"Exited", "Signaled"}
         THEN /\ Len(log) = i + 1
              /\ pc = "prompt"
              /\ status = log[i + 1].res
         ELSE /\ log[i + 1].res.kind = "Stopped"
              /\ Len(log) <= i + 4
              /\ Len(log) >= i + 2 =>
                   log[i + 2] = Op("write_byte", log[1].addr - 1, TRAP, TRUE)
              /\ Len(log) >= i + 3 => log[i + 3] = Op("cont", 0, 0, TRUE)
              /\ Len(log) >= i + 4 => log[i + 4].op = "wait"
              /\ pc = "prompt" => (Len(log) = i + 4 /\ status = log[i + 4].res)

\* The single-step of a step-over ended with the process exited.
C10_Witness ==
  /\ pc = "prompt"
  /\ Len(log) = 5
  /\ log[4].op = "step"
  /\ log[5].res.kind = "Exited"
  /\ status.kind = "Exited"

\* A request of the log that failed with an OS error.
Failed(e) == ~e.ok

\* C11: a request of a resume that fails with an OS error is the last
\* request of that resume, the resume returns the error to debugger_next,
\* which reports it, and the session is back at its prompt.
C11_ErrorReturned ==
  \A i \in 1..Len(log) :
    Failed(log[i]) =>
      /\ i = Len(log)
      /\ pc = "prompt"
      /\ status = StatusErr

\* C12: a launch that does not succeed reports the failure and leaves no
\* child of that launch alive and no live process in the session.
C12_FailedLaunchLeavesNone ==
  [][(pc = "prompt" /\ cmd'.name = "run" /\ pc' = "prompt") =>
       /\ msg' = "Error starting subprocess"
       /\ orphans' = orphans
       /\ ~LiveProc']_vars

\* C13: once a resume has returned Exited or Signaled, or the session has
\* killed its process, the process slot is empty.
C13_SlotEmptyAfterEnd ==
  /\ (pc = "prompt" /\ status.kind \in {"Exited", "Signaled"}) => inferior = "None"
  /\ killed => inferior = "None"

\* C14: with an empty table and a target that receives no signal, the
\* resume of a run returns, its first and only report is Exited(code), and
\* code is the exit code the target produced.
C14_RunsToExit ==
  /\ (pc = "ce_getrip" /\ cmd.name = "run" /\ breakpoints = <<>>)
       ~> (pc = "prompt" /\ status.kind = "Exited")
  /\ [][(cmd.name = "run" /\ breakpoints = <<>> /\ pc # "prompt" /\ pc' = "prompt") =>
         /\ wstatus.kind = "Exited"
         /\ status' = wstatus
         /\ msg' = "Child exited"]_vars

\* A run with an empty table has gone round the target's loop and returned
\* the target's exit code 3.
C14_Witness ==
  /\ pc = "prompt"
  /\ cmd.name = "run"
  /\ breakpoints = <<>>
  /\ loops = MaxLoops
  /\ Len(log) = 3
  /\ status = Exited(3)

\* The aligned word of memory m that contains address a.
WordOf(m, a) == m[align_addr_to_word(a)]

\* C15: after b = write_byte(a, v) the byte of memory at a is v; after the
\* following write_byte(a, b) the aligned word containing a is the word
\* that was there before the first call, and the second call returned v.
C15_RoundTrip ==
  /\ (call.phase = "wrote" /\ call.ok) => ByteAt(mem, call.a) = call.v
  /\ call.phase = "restored" =>
       /\ call.ok
       /\ WordOf(mem, call.a) = WordOf(call.m0, call.a)
       /\ call.b = call.v0

\* A round trip on the last byte of the second word has put back a byte
\* that differs from the one written in between.
C15_Witness ==
  /\ call.phase = "restored"
  /\ call.a = 15
  /\ call.v0 = TRAP
  /\ call.v # call.v0
  /\ call.n = MaxWrites

\* C16: write_byte(a, v) touches the 8-byte-aligned word containing a and
\* no other: it returns the byte at offset a mod 8 of that word, puts v
\* there, and leaves every other byte of memory as it was; when the read
\* of the word fails nothing is written.
C16_OneByteOfOneWord ==
  [][call' # call =>
       LET a == call'.a
           base == align_addr_to_word(a)
       IN /\ base % 8 = 0 /\ base <= a /\ a < base + 8
          /\ call'.ok = (base \in MappedBases)
          /\ IF call'.ok
             THEN /\ call'.b = mem[base][(a % 8) + 1]
                  /\ \A w \in MappedBases : \A i \in 1..8 :
                       mem'[w][i] = IF w + (i - 1) = a THEN call'.v ELSE mem[w][i]
             ELSE mem' = mem]_vars

\* The second direct call of write_byte has replaced the sixth byte of the
\* second word by a byte that differs from the one it returned.
C16_Witness ==
  /\ call.phase = "wrote"
  /\ call.a = 13
  /\ call.ok
  /\ call.b # call.v
  /\ ByteAt(mem, 13) = call.v
  /\ call.n = MaxWrites

\* How many calls below main the function is that the child is stopped in.
CallDepth == CHOOSE k \in 0..MaxDepth : FuncNames[k + 1] = FuncAt(rip)

\* The frame-pointer chain from the frame-base register leads to main:
\* the register holds the base of one of the frames, and every frame from
\* there up holds its caller's base and a return address into its caller.
ChainToMain ==
  /\ FuncAt(rip) # NoFunc
  /\ \E j \in 0..MaxDepth :
       /\ rbp = Base(j)
       /\ \A k \in 1..j :
            /\ WordVal(mem[Base(k)]) = Base(k - 1)
            /\ FuncAt(WordVal(mem[Base(k) + WordSize])) = FuncNames[k]

\* The lines printed follow the chain: the first is for the instruction
\* pointer, each next one for the word above the frame base before it, with
\* the word at that frame base as its frame base; the last and no other is
\* for main.
FollowsChain(fs) ==
  /\ fs # <<>>
  /\ fs[1].ip = rip /\ fs[1].bp = rbp
  /\ \A i \in 1..(Len(fs) - 1) :
       /\ fs[i + 1].ip = ptrace_read(mem, TRUE, fs[i].bp + WordSize).val
       /\ fs[i + 1].bp = ptrace_read(mem, TRUE, fs[i].bp).val
       /\ fs[i].func # "main"
  /\ fs[Len(fs)].func = "main"

\* C17 as claimed: a completed backtrace of a child n calls below main
\* whose chain leads to main has n + 1 lines.
C17_OneFramePerCall ==
  (cmd.name = "backtrace" /\ msg = "backtrace" /\ ChainToMain) =>
    Len(frames) = CallDepth + 1

\* C17, amended: for a stopped child whose chain leads to main, and whose
\* frame-base register holds the frame of the function it is stopped in,
\* the backtrace completes and prints, innermost first, one line for each
\* function from that one up to main, following the chain.
C17_FramesFollowChain ==
  (cmd.name = "backtrace" /\ inferior = "Some" /\ PtraceOk /\ ChainToMain
     /\ rbp = Base(CallDepth)) =>
    /\ pc = "prompt"
    /\ msg = "backtrace"
    /\ FollowsChain(frames)
    /\ Len(frames) = CallDepth + 1
    /\ \A i \in 1..Len(frames) : frames[i].func = FuncNames[CallDepth - i + 2]

\* The backtrace of a child stopped past the prologue of the deepest
\* callee has printed a line for every function up to main.
C17_Witness ==
  /\ cmd.name = "backtrace"
  /\ pc = "prompt"
  /\ CallDepth = MaxDepth
  /\ rbp = Base(MaxDepth)
  /\ Len(frames) = MaxDepth + 1
  /\ frames[Len(frames)].func = "main"

\* C18: a backtrace whose walk meets a failing memory read or an address
\* that does not resolve ends with the debugger back at its prompt.
C18_FailedWalkReported ==
  (cmd.name = "backtrace" /\ inferior = "Some" /\ PtraceOk
     /\ Walk(mem, rip, rbp, <<>>, MaxFrames).end \in {"read_err", "unresolved"}) =>
    (pc = "prompt" /\ msg # "panic")

\* C19: a backtrace request leaves the child's registers, memory and
\* stopped/alive status and the breakpoint table as they were.
C19_BacktraceReadsOnly ==
  [][(pc = "prompt" /\ cmd'.name = "backtrace") =>
       /\ rip' = rip /\ rbp' = rbp
       /\ mem' = mem
       /\ pstate' = pstate /\ wstatus' = wstatus
       /\ breakpoints' = breakpoints]_vars

\* A backtrace has failed on a child with a patched breakpoint in its
\* memory and in the table.
C19_Witness ==
  /\ cmd.name = "backtrace"
  /\ pc = "panicked"
  /\ frames # <<>>
  /\ LastAddr \in DOMAIN breakpoints
  /\ ByteAt(mem, LastAddr) = TRAP
  /\ pstate = "stopped"

\* C20: a breakpoint request whose specification does not resolve leaves
\* the table, the target and the session as they were, and the debugger
\* at its prompt with the failure reported.
C20_UnresolvedReported ==
  [][(pc = "prompt" /\ cmd'.name = "break" /\ cmd'.arg = NoAddr) =>
       /\ pc' = "prompt"
       /\ msg' # "panic"
       /\ breakpoints' = breakpoints
       /\ mem' = mem
       /\ inferior' = inferior /\ pstate' = pstate /\ wstatus' = wstatus]_vars

\* C21: no step taken between the start of a resume and its return, by
\* continue_exec or by the target, changes the breakpoint table, whatever
\* the resume returns.
C21_ResumeKeepsTable ==
  [][(pc \notin {"prompt", "quit", "panicked", "walking"}) =>
       breakpoints' = breakpoints]_vars

\* A continue has stepped over a breakpoint with a second entry in the
\* table and has returned an error, the child having been killed.
C21_Witness ==
  /\ pc = "prompt"
  /\ cmd.name = "continue"
  /\ Cardinality(DOMAIN breakpoints) >= 2
  /\ Len(log) >= 6
  /\ log[2].op = "write_byte"
  /\ status = StatusErr

\* C22: continue, backtrace or a breakpoint request on a process that has
\* already ended reports an error, touches neither the table nor the
\* target, and leaves the debugger at its prompt.
C22_DeadProcessReported ==
  [][(pc = "prompt" /\ inferior = "Some" /\ pstate = "dead"
        /\ cmd'.name \in {"continue", "backtrace", "break"}) =>
       /\ pc' = "prompt"
       /\ msg' \in {"Inferior process is not running", "Error setting breakpoint"}
       /\ breakpoints' = breakpoints
       /\ mem' = mem]_vars

\* C23: a command that asks alive() of its process leaves a pending
\* wait-status of that process pending.
C23_AliveKeepsStatus ==
  [][(pc = "prompt" /\ inferior = "Some" /\ cmd'.name \in {"continue", "break"}) =>
       wstatus' = wstatus]_vars

\* C24: once the session has quit, no process it launched is alive, and a
\* process the session has killed is not alive.
C24_NoneAliveAfterQuit ==
  /\ pc = "quit" => (~LiveProc /\ orphans = 0)
  /\ killed => ~LiveProc

\* The class the rules give a specification: a leading `*` makes it a
\* literal address, else decimal digits (after an optional `+`) make it a
\* line number, else it is a function name.
RECURSIVE NoLeadingZeros(_)
NoLeadingZeros(d) ==
  IF d # <<>> /\ Head(d) = "0" THEN NoLeadingZeros(Tail(d)) ELSE d
\* For two strings of decimal digits of one length: a denotes no more than b.
RECURSIVE AtMost(_, _)
AtMost(a, b) ==
  \/ a = <<>>
  \/ Index(DecDigits, Head(a)) < Index(DecDigits, Head(b))
  \/ Head(a) = Head(b) /\ AtMost(Tail(a), Tail(b))
\* 2^64 - 1 in decimal
MaxUnsigned ==
  <<"1", "8", "4", "4", "6", "7", "4", "4", "0", "7", "3", "7", "0", "9", "5", "5", "1", "6", "1", "5">>
\* The string is an unsigned integer: an optional `+`, then decimal digits
\* that denote a value of the machine's unsigned word.
IsUnsigned(t) ==
  LET d == IF t # <<>> /\ Head(t) = "+" THEN Tail(t) ELSE t
      n == NoLeadingZeros(d)
  IN /\ d # <<>>
     /\ \A i \in 1..Len(d) : Has(DecDigits, d[i])
     /\ \/ Len(n) < Len(MaxUnsigned)
        \/ Len(n) = Len(MaxUnsigned) /\ AtMost(n, MaxUnsigned)
ClassOf(t) ==
  IF t # <<>> /\ Head(t) = "*" THEN "Addr"
  ELSE IF IsUnsigned(t) THEN "Line"
  ELSE "Func"

\* C25: every breakpoint request is served with its specification put in
\* the one class the rules give it.
C25_OneClass ==
  [][\A t \in BpTexts :
       (pc = "prompt" /\ CmdBreak(t)) => type_breakpoint(t).kind = ClassOf(t)]_vars

\* C26: with a limit N > 0 no window sees more than N requests of one IP
\* forwarded, so at any time the requests forwarded for an IP number at most
\* N for each window begun; and with N = 0 no request is answered 429.
C26_RateLimited ==
  /\ max_requests_per_minute = 0 =>
       \A h \in Handlers : conn[h].resp # TOO_MANY_REQUESTS
  /\ max_requests_per_minute > 0 =>
       \A ip \in ClientIps :
         forwarded[ip] <= max_requests_per_minute * (window + 1)

\* C27: every health check round ends with the task asleep until the next
\* round, every configured upstream asked, and the active list holding
\* exactly those that answered 200.
C27_RoundListsHealthy ==
  [][(hc.pc = "round" /\ hc'.pc # "round") =>
       /\ hc'.pc = "sleep"
       /\ \A u \in Upstreams : hc'.probes[u] # "none"
       /\ active_upstream' =
            SelectSeq(upstream_addresses, LAMBDA u : hc'.probes[u] = "ok")]_vars

\* C28: the step-over is entered only for a process whose latest stop came
\* from executing the trap at the instruction pointer minus one.
C28_StepOverOnlyAfterTrap ==
  pc = "ce_unpatch" => hit = crip - 1

\* continue_exec read the instruction pointer and found no table entry at
\* the address before it.
PlainResume ==
  /\ log # <<>>
  /\ log[1].op = "get_rip"
  /\ log[1].ok
  /\ (log[1].addr - 1) \notin DOMAIN breakpoints

\* C29 as stated: a resume that finds no table entry at the instruction
\* pointer minus one writes no memory and no register and issues no
\* single-step; it issues one continue, then one wait, and returns the
\* status of that wait.
C29_OneContOneWait ==
  PlainResume =>
    /\ Len(log) <= 3
    /\ Len(log) >= 2 => log[2] = Op("cont", 0, 0, TRUE)
    /\ Len(log) = 3 => log[3].op = "wait"
    /\ pc = "prompt" => (Len(log) = 3 /\ status = log[3].res)

\* C29: a resume that finds no table entry at the instruction pointer minus
\* one writes no memory and no register and issues no single-step; it
\* issues one continue, and when that succeeds one wait whose result (the
\* status or the error of the wait) it returns, and when that fails it
\* returns the error with no wait.
C29_ContThenWaitOrError ==
  PlainResume =>
    /\ Len(log) <= 3
    /\ Len(log) >= 2 => (log[2].op = "cont" /\ (Len(log) = 3 => log[2].ok))
    /\ Len(log) = 3 => log[3].op = "wait"
    /\ pc = "prompt" =>
         \/ Len(log) = 3 /\ status = log[3].res
         \/ Len(log) = 2 /\ ~log[2].ok /\ status = StatusErr

\* A resume from a stop with breakpoints set elsewhere has continued and
\* come back with the status of the next stop.
C29_Witness ==
  /\ PlainResume
  /\ pc = "prompt"
  /\ breakpoints # <<>>
  /\ Len(log) = 3
  /\ log[2] = Op("cont", 0, 0, TRUE)
  /\ status.kind = "Stopped"
  /\ status = log[3].res

\* The byte addresses of the target's mapped words.
MappedAddrs == {b + i : b \in MappedBases, i \in 0..(WordSize - 1)}

\* C30: a breakpoint command for an address not in the table, given while
\* the process is alive, either writes the trap opcode at that address,
\* changes no other byte, and adds the one entry for the address with the
\* byte that was there as its saved byte; or, the write failing (the address
\* is not mapped, or the process is killed from outside before the write),
\* reports the error and leaves the table and the target's memory as they
\* were.
C30_NewBreakpointPatched ==
  [][(/\ pc = "prompt" /\ pc' = "prompt"
      /\ cmd'.name = "break"
      /\ inferior = "Some" /\ LiveProc
      /\ cmd'.arg \notin DOMAIN breakpoints) =>
       LET A == cmd'.arg
       IN IF Mapped(A) /\ pstate' = pstate
          THEN /\ \A a \in MappedAddrs :
                    ByteAt(mem', a) = IF a = A THEN TRAP ELSE ByteAt(mem, a)
               /\ DOMAIN breakpoints' = DOMAIN breakpoints \cup {A}
               /\ breakpoints'[A] = Breakpoint(A, ByteAt(mem, A))
               /\ \A a \in DOMAIN breakpoints : breakpoints'[a] = breakpoints[a]
          ELSE /\ msg' = "Error setting breakpoint"
               /\ breakpoints' = breakpoints
               /\ mem' = mem]_vars

\* The last command set a breakpoint in a live process at an address that
\* had none: the trap is in memory and the entry holds the program's byte.
C30_Witness ==
  /\ pc = "prompt"
  /\ cmd.name = "break"
  /\ inferior = "Some" /\ LiveProc
  /\ cmd.arg \in DOMAIN breakpoints
  /\ ByteAt(mem, cmd.arg) = TRAP
  /\ breakpoints[cmd.arg].orig_byte = ByteAt(Image, cmd.arg)
  /\ breakpoints[cmd.arg].orig_byte # TRAP
  /\ log = <<>>

\* C31: called with at least one thread, parallel_map returns a vector as
\* long as the one given whose element at every index is f of the given
\* element at that index, in whatever order the workers' results arrived.
C31_MapsInPlace ==
  (caller.pc = "done" /\ num_threads >= 1) =>
    /\ Len(output_vec) = Len(given)
    /\ \A i \in 1..Len(given) : output_vec[i] = f(given[i])

\* parallel_map has returned after two workers delivered three results in
\* an order that is neither that of the indices nor that of the sends.
C31_Witness ==
  /\ caller.pc = "done"
  /\ num_threads >= 2
  /\ Len(caller.order) = MaxLen
  /\ \E j \in 1..(MaxLen - 1) : caller.order[j] < caller.order[j + 1]
  /\ \E j \in 1..(MaxLen - 1) : caller.order[j] > caller.order[j + 1]
  /\ \E i, j \in 1..Len(given) : given[i] # given[j]

\* Every worker asked for has left its loop and has been joined.
AllJoined ==
  /\ \A w \in 1..num_threads : threads[w].pc = "exited"
  /\ caller.joined = num_threads
  /\ tx1_live = 0

\* C32 as stated: for any number of threads, zero included, parallel_map
\* comes to its return under fair scheduling, with every queued pair
\* received and passed to f exactly once, the channels drained, and every
\* worker exited and joined.
C32_TerminatesAllApplied ==
  <>[](/\ caller.pc = "done"
       /\ \A i \in DOMAIN applied : applied[i] = 1
       /\ work = <<>> /\ results = <<>>
       /\ AllJoined)

\* C32: for any number of threads, zero included, parallel_map comes to
\* its return under fair scheduling (so no state short of the return is a
\* deadlock) with every worker exited and joined and the result channel
\* drained; with at least one worker every queued pair has been received and
\* passed to f exactly once, and with none the pairs stay queued and f is
\* never called.
C32_TerminatesJoined ==
  <>[](/\ caller.pc = "done"
       /\ results = <<>>
       /\ AllJoined
       /\ IF num_threads >= 1
          THEN work = <<>> /\ \A i \in DOMAIN applied : applied[i] = 1
          ELSE Len(work) = Len(given) /\ \A i \in DOMAIN applied : applied[i] = 0)

\* parallel_map has returned from a call with the longest vector and two
\* workers, both joined, each pair applied once.
C32_Witness ==
  /\ caller.pc = "done"
  /\ num_threads = MaxThreads
  /\ Len(given) = MaxLen
  /\ AllJoined
  /\ \A i \in DOMAIN applied : applied[i] = 1

\* C33: no step of a handler's connect_to_upstream panics on an index out
\* of range, and a handler that removes an entry of the active list removes
\* the address its own connection attempt failed on.
C33_RemovesOwnFailure ==
  [][\A h \in Handlers :
       /\ conn[h].pc # "panicked" => conn'[h].pc # "panicked"
       /\ (conn[h].pc = "remove" /\ conn'[h].pc # "remove") =>
            /\ conn[h].idx < Len(active_upstream)
            /\ active_upstream[conn[h].idx + 1] = conn[h].up]_vars

====
